---- MODULE Spec2Model ----
(***************************************************************************)
(* Model of the quizly browser client: the Decks page and its requests to  *)
(* the REST backend, the auth service and route protection, the podcast    *)
(* player and the deck editor's podcast generation.                        *)
(***************************************************************************)
EXTENDS Integers, Sequences, FiniteSets, TLC

\* ---------------------------------------------------------------- bounds
\* Number of request slots: how many HTTP requests may be in flight at once.
MaxInflight == 3
\* Number of user gestures (clicks) in one run of the Decks page.
MaxClicks == 1
\* Number of user gestures in the runs that look for overlapping handlers.
MaxRaceClicks == 2

\* ------------------------------------------------------------- constants
\* A deck's order_index when the backend sent null (or nothing).
NoIndex == -1
\* A deck's folder_id when the backend sent null: the deck is at root.
NoFolder == "root"

DeckIds == {"d1", "d2", "d3"}
FolderIds == {"f1", "f2"}

VARIABLES
    \* Decks page (React state of Decks.tsx)
    decks, folders, isLoading, toast, mounted, clicks, clickLimit,
    \* backend records of the signed-in user
    srvDecks, srvFolders,
    \* HTTP requests in flight, one per slot
    reqs,
    \* the latest handleDeleteFolder whose DELETE succeeded, and its refetches
    delOp,
    \* AuthService fields, localStorage, the router's location, the page
    \* component on screen and the Header of the build
    token, user, ls, route, page, headerBuild,
    \* what a FolderItem rendered last: the folder, its deck cards, its count
    viewFolder, viewDecks, viewCount,
    \* global podcast player: Decks.tsx state and the player's audio element
    currentPodcast, isPodcastPlayerOpen, isPlaying, audio,
    \* DeckEditor state
    deckId, flashcards, generatingPodcast, podcastProgress, podcastAudioUrl,
    deckTitle, saving, recordingStates

pageVars == <<decks, folders, isLoading, toast, mounted, clicks, clickLimit,
              srvDecks, srvFolders, delOp>>
authVars == <<token, user, ls, route, page, headerBuild>>
viewVars == <<viewFolder, viewDecks, viewCount>>
playerVars == <<currentPodcast, isPodcastPlayerOpen, isPlaying, audio>>
editorVars == <<deckId, flashcards, generatingPodcast, podcastProgress, podcastAudioUrl,
                deckTitle, saving, recordingStates>>

\* What the Decks page and the backend leave alone.
offPage == <<authVars, viewVars, playerVars, editorVars>>

vars == <<pageVars, reqs, authVars, viewVars, playerVars, editorVars>>

\* ------------------------------------------------------------ sequences
Range(s) == {s[i] : i \in 1..Len(s)}

Ids(ds) == {ds[i].id : i \in 1..Len(ds)}

Filter(s, Test(_)) == SelectSeq(s, Test)

\* The comparator without `|| 0`: a missing order_index sorts before 0.
OrderKey_NullFirst(d) == d.order_index

\* `a.order_index || 0`: null, undefined and 0 all count as 0.
OrderKey(d) == IF d.order_index = NoIndex THEN 0 ELSE d.order_index

\* One step of Array.prototype.sort with the comparator
\* (a, b) => (a.order_index || 0) - (b.order_index || 0); the sort is stable,
\* so x goes after every element whose key is not larger.
InsertByOrder(sorted, x) ==
    LET n == Cardinality({i \in 1..Len(sorted) : OrderKey(sorted[i]) <= OrderKey(x)})
    IN SubSeq(sorted, 1, n) \o <<x>> \o SubSeq(sorted, n + 1, Len(sorted))

RECURSIVE SortByOrder(_)
SortByOrder(s) ==
    IF s = <<>> THEN <<>>
    ELSE InsertByOrder(SortByOrder(SubSeq(s, 1, Len(s) - 1)), s[Len(s)])

\* FolderItem: decks.filter(deck => deck.folder_id === folder.id).sort(...)
folderDecks(ds, f) == SortByOrder(Filter(ds, LAMBDA d : d.folder_id = f))

\* rootDecks: decks.filter(deck => !deck.folder_id)
rootDecks(ds) == Filter(ds, LAMBDA d : d.folder_id = NoFolder)

\* Position of deck id in a list of decks, 0 when absent (findIndex + 1).
IndexOfDeck(ds, id) ==
    IF id \in Ids(ds) THEN CHOOSE i \in 1..Len(ds) : ds[i].id = id /\ \A j \in 1..(i - 1) : ds[j].id # id
    ELSE 0

\* An exchange that moves the element to the front instead.
Swap_ToFront(s, i, j) == <<s[i]>> \o SubSeq(s, 1, i - 1) \o SubSeq(s, i + 1, Len(s))

Swap(s, i, j) == [k \in 1..Len(s) |-> IF k = i THEN s[j] ELSE IF k = j THEN s[i] ELSE s[k]]

IdsOf(ds) == [i \in 1..Len(ds) |-> ds[i].id]

\* ---------------------------------------------------------- deck records
\* Whether the backend stores a podcast for the deck (fixed per deck here).
PodcastUrl(id) == IF id = "d3" THEN "" ELSE "url-" \o id

Deck(id, f, o) == [id |-> id, folder_id |-> f, order_index |-> o,
                   podcast_audio_url |-> PodcastUrl(id)]

\* fetchDecks: data.map(deck => ({id, ..., folder_id, order_index,
\* podcast_audio_url: deck.podcast_audio_url || null}))
TransformDeck(deck) ==
    [id |-> deck.id, folder_id |-> deck.folder_id, order_index |-> deck.order_index,
     podcast_audio_url |-> deck.podcast_audio_url]

TransformDecks(data) == [i \in 1..Len(data) |-> TransformDeck(data[i])]

\* The backend's deck lists at page load: ordered folders, a folder whose decks
\* never got an order_index, and a folder with equal indices.
InitServerDecks ==
    { <<Deck("d1", "f1", 0), Deck("d2", "f1", 1), Deck("d3", NoFolder, NoIndex)>>,
      <<Deck("d1", "f1", NoIndex), Deck("d2", "f1", NoIndex), Deck("d3", "f2", 0)>>,
      <<Deck("d3", "f1", 1), Deck("d1", "f1", 1), Deck("d2", "f1", 0)>> }

\* ------------------------------------------------------------- requests
\* A flashcard without mcq_options (undefined).
NoOptions == <<"undefined">>

\* The body of a request that is not a flashcard save.
NoBody == [deck_id |-> "", id |-> "", question |-> "", answer |-> "", question_type |-> "",
           mcq_options |-> NoOptions, correct_option_index |-> NoIndex]

Free == [kind |-> "free", deck |-> "", folder |-> "", order |-> <<>>, st |-> "free",
         dDecks |-> <<>>, dFolders |-> <<>>, cont |-> "none", tag |-> FALSE,
         members |-> {}, auth |-> "", via |-> "", tok |-> "", live |-> FALSE, url |-> "",
         usr |-> "", apiResult |-> "", data |-> <<>>, settled |-> "",
         all |-> <<>>, cards |-> <<>>, recs |-> {}, idx |-> 0, body |-> NoBody, id |-> ""]

\* api.ts: const token = localStorage.getItem('access_token');
\* if (token) headers['Authorization'] = `Bearer ${token}`. "" is no header.
apiHeaders(storage) ==
    IF storage.access_token # "" THEN "Bearer " \o storage.access_token ELSE ""

\* A request of apiGet / apiPost / apiPut / apiDelete, as sent.
Request(kind, deck, folder, order, cont, tag) ==
    [Free EXCEPT !.kind = kind, !.deck = deck, !.folder = folder, !.order = order,
                 !.st = "sent", !.cont = cont, !.tag = tag,
                 !.auth = apiHeaders(ls), !.via = "api"]

Slots == 1..MaxInflight

FreeSlots(rs) == {s \in Slots : rs[s].kind = "free"}

FirstFree(rs) == CHOOSE s \in FreeSlots(rs) : \A u \in FreeSlots(rs) : s <= u

Idle == \A s \in Slots : reqs[s].kind = "free"

NoOp == [f |-> "", members |-> {}, dk |-> "none", fo |-> "none"]

\* ------------------------------------------------ parts that stand still
\* localStorage of a signed-in browser: login stored access_token and user.
SignedInStorage == [access_token |-> "t0", user |-> "u1", auth_token |-> ""]

\* The session while the Decks page, the player or the editor is looked at.
AuthIdle ==
    /\ token = "t0"
    /\ user = "u1"
    /\ ls = SignedInStorage
    /\ route = "/decks"
    /\ page = "Decks"
    /\ headerBuild = "authService"

ViewIdle == viewFolder = "" /\ viewDecks = <<>> /\ viewCount = 0

NoPodcast == [url |-> "", deckId |-> "", folderId |-> ""]

\* audioRef.current before the player's effect has created an Audio.
NoAudio == [src |-> "", st |-> "none", time |-> 0]

PlayerIdle ==
    /\ currentPodcast = NoPodcast
    /\ isPodcastPlayerOpen = FALSE
    /\ isPlaying = FALSE
    /\ audio = NoAudio

EditorIdle ==
    /\ deckId = ""
    /\ flashcards = <<>>
    /\ generatingPodcast = FALSE
    /\ podcastProgress = 0
    /\ podcastAudioUrl = ""
    /\ deckTitle = "" /\ saving = FALSE /\ recordingStates = {}

\* --------------------------------------------------------- Decks page
DecksInit(limit) ==
    /\ clickLimit = limit
    /\ decks = <<>>
    /\ folders = <<>>
    /\ isLoading = TRUE
    /\ toast = ""
    /\ mounted = FALSE
    /\ clicks = 0
    /\ srvDecks \in InitServerDecks
    /\ srvFolders = <<"f1", "f2">>
    /\ reqs = [s \in Slots |-> Free]
    /\ delOp = NoOp

\* fetchDecks up to its await: setIsLoading(true) and GET /decks/my-decks.
\* The request goes into slot s.
fetchDecks(rs, s, tag) == [rs EXCEPT ![s] = Request("getDecks", "", "", <<>>, "none", tag)]

\* fetchFolders up to its await: GET /folders/my-folders.
fetchFolders(rs, s, cont, tag) == [rs EXCEPT ![s] = Request("getFolders", "", "", <<>>, cont, tag)]

\* fetchData: starts fetchDecks and fetchFolders, awaits neither.
fetchData(rs, tag) ==
    LET s1 == FirstFree(rs)
        r1 == fetchDecks(rs, s1, tag)
    IN fetchFolders(r1, FirstFree(r1), "none", tag)

\* useEffect on mount: with the service authenticated (otherwise the effect
\* navigates to /auth and returns), fetchData().
Mount ==
    /\ ~mounted
    /\ token # "" /\ user # ""
    /\ mounted' = TRUE
    /\ isLoading' = TRUE
    /\ reqs' = fetchData(reqs, FALSE)
    /\ UNCHANGED <<decks, folders, toast, clicks, clickLimit, srvDecks, srvFolders, delOp, offPage>>

\* The deck cards are rendered only when isLoading is false; a card is rendered
\* under root or inside the FolderItem of a folder of the local folders list.
Displayed(ds, fs, id) ==
    \E i \in 1..Len(ds) :
        /\ ds[i].id = id
        /\ \/ ds[i].folder_id = NoFolder
           \/ ds[i].folder_id \in Range(fs)

CanClick == mounted /\ ~isLoading /\ clicks < clickLimit /\ FreeSlots(reqs) # {}

Send(r) ==
    /\ reqs' = [reqs EXCEPT ![FirstFree(reqs)] = r]
    /\ clicks' = clicks + 1
    /\ UNCHANGED <<decks, folders, isLoading, toast, mounted, clickLimit, srvDecks, srvFolders, delOp, offPage>>

\* handleDeleteDeck up to its await: DELETE /decks/{deckId}.
handleDeleteDeck(id) ==
    /\ CanClick
    /\ Displayed(decks, folders, id)
    /\ Send(Request("deleteDeck", id, "", <<>>, "none", FALSE))

\* handleDeleteFolder up to its await: DELETE /folders/{folderId}.
handleDeleteFolder(folderId) ==
    /\ CanClick
    /\ folderId \in Range(folders)
    /\ Send(Request("deleteFolder", "", folderId, <<>>, "none", FALSE))

\* moveDeckToFolder up to its await: PUT /decks/{deckId} {folder_id}.
moveDeckToFolder(id, folderId) ==
    /\ CanClick
    /\ Displayed(decks, folders, id)
    /\ folderId = NoFolder \/ folderId \in Range(folders)
    /\ Send(Request("moveDeck", id, folderId, <<>>, "none", FALSE))

\* handleReorderDecks up to its await: POST /decks/folder/{folderId}/reorder.
handleReorderDecks(folderId, deckOrder) ==
    Send(Request("reorder", "", folderId, deckOrder, "none", FALSE))

LocalDeck(id) == decks[IndexOfDeck(decks, id)]

\* An early `return` of a click handler: the gesture is spent, nothing else
\* happens.
Return ==
    /\ clicks' = clicks + 1
    /\ UNCHANGED <<decks, folders, isLoading, toast, mounted, clickLimit, srvDecks,
                   srvFolders, reqs, delOp, offPage>>

\* handleMoveDeckUp without the guard on order_index.
handleMoveDeckUp_NoIndexGuard(id) ==
    /\ CanClick
    /\ Displayed(decks, folders, id)
    /\ LET deck == LocalDeck(id)
           fd == folderDecks(decks, deck.folder_id)
           currentIndex == IndexOfDeck(fd, id)
       IN IF deck.folder_id = NoFolder \/ currentIndex <= 1
          THEN Return
          ELSE handleReorderDecks(deck.folder_id, Swap(IdsOf(fd), currentIndex, currentIndex - 1))

\* handleMoveDeckUp: guards, then the swap with the previous deck.
handleMoveDeckUp(id) ==
    /\ CanClick
    /\ Displayed(decks, folders, id)
    /\ LET deck == LocalDeck(id)
           fd == folderDecks(decks, deck.folder_id)
           currentIndex == IndexOfDeck(fd, id)
       IN IF deck.folder_id = NoFolder \/ deck.order_index = NoIndex \/ currentIndex <= 1
          THEN Return
          ELSE handleReorderDecks(deck.folder_id, Swap(IdsOf(fd), currentIndex, currentIndex - 1))

\* handleMoveDeckDown: guards, then the swap with the next deck.
handleMoveDeckDown(id) ==
    /\ CanClick
    /\ Displayed(decks, folders, id)
    /\ LET deck == LocalDeck(id)
           fd == folderDecks(decks, deck.folder_id)
           currentIndex == IndexOfDeck(fd, id)
       IN IF \/ deck.folder_id = NoFolder \/ deck.order_index = NoIndex
             \/ currentIndex < 1 \/ currentIndex >= Len(fd)
          THEN Return
          ELSE handleReorderDecks(deck.folder_id, Swap(IdsOf(fd), currentIndex, currentIndex + 1))

\* ------------------------------------------------------------- backend
\* DELETE /decks/{id}
ServerDeleteDeck(ds, id) == Filter(ds, LAMBDA d : d.id # id)

\* DELETE /folders/{id}: the folder goes, its decks move to root.
ServerOrphan(ds, f) ==
    [i \in 1..Len(ds) |-> IF ds[i].folder_id = f THEN [ds[i] EXCEPT !.folder_id = NoFolder] ELSE ds[i]]

\* PUT /decks/{id} {folder_id}: a partial update of the one field.
ServerMoveDeck(ds, id, f) ==
    [i \in 1..Len(ds) |-> IF ds[i].id = id THEN [ds[i] EXCEPT !.folder_id = f] ELSE ds[i]]

\* POST /decks/folder/{id}/reorder {deck_order}: the deck at position i of
\* deck_order gets order_index i (from 0), if it is a deck of the folder.
ServerReorder(ds, f, order) ==
    [i \in 1..Len(ds) |->
        IF ds[i].folder_id = f /\ ds[i].id \in Range(order)
        THEN [ds[i] EXCEPT !.order_index = (CHOOSE k \in 1..Len(order) : order[k] = ds[i].id) - 1]
        ELSE ds[i]]

\* The backend answers the request of slot s with an error and changes nothing.
ServerReject(s) ==
    /\ reqs[s].st = "sent"
    /\ reqs' = [reqs EXCEPT ![s].st = "err"]
    /\ UNCHANGED <<decks, folders, isLoading, toast, mounted, clicks, clickLimit, srvDecks, srvFolders, delOp, offPage>>

\* The backend handles the request of slot s and answers 200.
ServerHandle(s) ==
    /\ reqs[s].st = "sent"
    /\ LET r == reqs[s] IN
       \/ /\ r.kind = "deleteDeck"
          /\ r.deck \in Ids(srvDecks)
          /\ srvDecks' = ServerDeleteDeck(srvDecks, r.deck)
          /\ reqs' = [reqs EXCEPT ![s].st = "ok"]
          /\ UNCHANGED srvFolders
       \/ /\ r.kind = "deleteFolder"
          /\ r.folder \in Range(srvFolders)
          /\ srvFolders' = Filter(srvFolders, LAMBDA f : f # r.folder)
          /\ srvDecks' = ServerOrphan(srvDecks, r.folder)
          /\ reqs' = [reqs EXCEPT ![s].st = "ok",
                                  ![s].members = Ids(Filter(srvDecks, LAMBDA d : d.folder_id = r.folder))]
       \/ /\ r.kind = "moveDeck"
          /\ r.deck \in Ids(srvDecks)
          /\ r.folder = NoFolder \/ r.folder \in Range(srvFolders)
          /\ srvDecks' = ServerMoveDeck(srvDecks, r.deck, r.folder)
          /\ reqs' = [reqs EXCEPT ![s].st = "ok"]
          /\ UNCHANGED srvFolders
       \/ /\ r.kind = "reorder"
          /\ r.folder \in Range(srvFolders)
          /\ srvDecks' = ServerReorder(srvDecks, r.folder, r.order)
          /\ reqs' = [reqs EXCEPT ![s].st = "ok"]
          /\ UNCHANGED srvFolders
       \/ /\ r.kind = "getDecks"
          /\ reqs' = [reqs EXCEPT ![s].st = "ok", ![s].dDecks = srvDecks]
          /\ UNCHANGED <<srvDecks, srvFolders>>
       \/ /\ r.kind = "getFolders"
          /\ reqs' = [reqs EXCEPT ![s].st = "ok", ![s].dFolders = srvFolders]
          /\ UNCHANGED <<srvDecks, srvFolders>>
    /\ UNCHANGED <<decks, folders, isLoading, toast, mounted, clicks, clickLimit, delOp, offPage>>

\* ------------------------------------------- handlers after their await
Untag(rs) == [s \in Slots |-> [rs[s] EXCEPT !.tag = FALSE]]

Release(rs, s) == [rs EXCEPT ![s] = Free]

\* delOp after the tagged decks / folders refetch has ended with outcome st.
DecksRefetched(op, r) == IF r.tag THEN [op EXCEPT !.dk = r.st] ELSE op
FoldersRefetched(op, r) == IF r.tag THEN [op EXCEPT !.fo = r.st] ELSE op

\* handleDeleteDeck after the await: toast and fetchDecks, or the error toast.
DeleteDeckDone(s) ==
    /\ reqs[s].kind = "deleteDeck"
    /\ \/ /\ reqs[s].st = "ok"
          /\ toast' = "Deck deleted"
          /\ isLoading' = TRUE
          /\ reqs' = fetchDecks(reqs, s, FALSE)
       \/ /\ reqs[s].st = "err"
          /\ toast' = "Failed to delete deck"
          /\ reqs' = Release(reqs, s)
          /\ UNCHANGED isLoading
    /\ UNCHANGED <<decks, folders, mounted, clicks, clickLimit, srvDecks, srvFolders, delOp, offPage>>

\* handleDeleteFolder as it would be with the refetch in a finally block: the
\* failed DELETE also refetches.
DeleteFolderDone_RefetchOnError(s) ==
    /\ reqs[s].kind = "deleteFolder"
    /\ reqs[s].st \in {"ok", "err"}
    /\ Cardinality(FreeSlots(reqs)) >= 1
    /\ toast' = IF reqs[s].st = "ok" THEN "Folder deleted" ELSE "Failed to delete folder"
    /\ isLoading' = TRUE
    /\ reqs' = fetchData(Untag(Release(reqs, s)), reqs[s].st = "ok")
    /\ delOp' = IF reqs[s].st = "ok"
                THEN [f |-> reqs[s].folder, members |-> reqs[s].members,
                      dk |-> "sent", fo |-> "sent"]
                ELSE delOp
    /\ UNCHANGED <<decks, folders, mounted, clicks, clickLimit, srvDecks, srvFolders, offPage>>

\* handleDeleteFolder after the await: toast and fetchData, or the error toast.
DeleteFolderDone(s) ==
    /\ reqs[s].kind = "deleteFolder"
    /\ \/ /\ reqs[s].st = "ok"
          /\ Cardinality(FreeSlots(reqs)) >= 1
          /\ toast' = "Folder deleted"
          /\ isLoading' = TRUE
          /\ reqs' = fetchData(Untag(Release(reqs, s)), TRUE)
          /\ delOp' = [f |-> reqs[s].folder, members |-> reqs[s].members,
                       dk |-> "sent", fo |-> "sent"]
       \/ /\ reqs[s].st = "err"
          /\ toast' = "Failed to delete folder"
          /\ reqs' = Release(reqs, s)
          /\ UNCHANGED <<isLoading, delOp>>
    /\ UNCHANGED <<decks, folders, mounted, clicks, clickLimit, srvDecks, srvFolders, offPage>>

\* moveDeckToFolder after the PUT: toast and fetchFolders (fetchDecks follows
\* it), or the error toast.
MoveDeckDone(s) ==
    /\ reqs[s].kind = "moveDeck"
    /\ \/ /\ reqs[s].st = "ok"
          /\ toast' = "Deck moved"
          /\ reqs' = fetchFolders(reqs, s, "fetchDecks", FALSE)
       \/ /\ reqs[s].st = "err"
          /\ toast' = "Failed to move deck"
          /\ reqs' = Release(reqs, s)
    /\ UNCHANGED <<decks, folders, isLoading, mounted, clicks, clickLimit, srvDecks, srvFolders, delOp, offPage>>

\* handleReorderDecks after the await: fetchDecks, or the error toast.
ReorderDone(s) ==
    /\ reqs[s].kind = "reorder"
    /\ \/ /\ reqs[s].st = "ok"
          /\ isLoading' = TRUE
          /\ reqs' = fetchDecks(reqs, s, FALSE)
          /\ UNCHANGED toast
       \/ /\ reqs[s].st = "err"
          /\ toast' = "Failed to reorder decks"
          /\ reqs' = Release(reqs, s)
          /\ UNCHANGED isLoading
    /\ UNCHANGED <<decks, folders, mounted, clicks, clickLimit, srvDecks, srvFolders, delOp, offPage>>

\* fetchDecks as it would be without its finally block: setIsLoading(false)
\* only after a successful load.
FetchDecksDone_NoFinally(s) ==
    /\ reqs[s].kind = "getDecks"
    /\ \/ /\ reqs[s].st = "ok"
          /\ decks' = TransformDecks(reqs[s].dDecks)
          /\ isLoading' = FALSE
          /\ UNCHANGED toast
       \/ /\ reqs[s].st = "err"
          /\ toast' = "Failed to load your decks"
          /\ UNCHANGED <<decks, isLoading>>
    /\ reqs' = Release(reqs, s)
    /\ delOp' = DecksRefetched(delOp, reqs[s])
    /\ UNCHANGED <<folders, mounted, clicks, clickLimit, srvDecks, srvFolders, offPage>>

\* fetchDecks after the await: setDecks(transformed), or the error toast;
\* finally setIsLoading(false).
FetchDecksDone(s) ==
    /\ reqs[s].kind = "getDecks"
    /\ \/ /\ reqs[s].st = "ok"
          /\ decks' = TransformDecks(reqs[s].dDecks)
          /\ UNCHANGED toast
       \/ /\ reqs[s].st = "err"
          /\ toast' = "Failed to load your decks"
          /\ UNCHANGED decks
    /\ isLoading' = FALSE
    /\ reqs' = Release(reqs, s)
    /\ delOp' = DecksRefetched(delOp, reqs[s])
    /\ UNCHANGED <<folders, mounted, clicks, clickLimit, srvDecks, srvFolders, offPage>>

\* fetchFolders after the await: setFolders(data || []), or setFolders([]);
\* in moveDeckToFolder, fetchDecks starts when fetchFolders has returned.
FetchFoldersDone(s) ==
    /\ reqs[s].kind = "getFolders"
    /\ \/ /\ reqs[s].st = "ok"
          /\ folders' = reqs[s].dFolders
       \/ /\ reqs[s].st = "err"
          /\ folders' = <<>>
    /\ IF reqs[s].cont = "fetchDecks"
       THEN /\ isLoading' = TRUE
            /\ reqs' = fetchDecks(reqs, s, FALSE)
       ELSE /\ reqs' = Release(reqs, s)
            /\ UNCHANGED isLoading
    /\ delOp' = FoldersRefetched(delOp, reqs[s])
    /\ UNCHANGED <<decks, toast, mounted, clicks, clickLimit, srvDecks, srvFolders, offPage>>

Deliver(s) ==
    \/ DeleteDeckDone(s)
    \/ DeleteFolderDone(s)
    \/ MoveDeckDone(s)
    \/ ReorderDone(s)
    \/ FetchDecksDone(s)
    \/ FetchFoldersDone(s)

DecksNext ==
    \/ Mount
    \/ \E d \in DeckIds : handleDeleteDeck(d)
    \/ \E f \in FolderIds : handleDeleteFolder(f)
    \/ \E d \in DeckIds, f \in FolderIds \cup {NoFolder} : moveDeckToFolder(d, f)
    \/ \E d \in DeckIds : handleMoveDeckUp(d)
    \/ \E d \in DeckIds : handleMoveDeckDown(d)
    \/ \E s \in Slots : ServerHandle(s)
    \/ \E s \in Slots : ServerReject(s)
    \/ \E s \in Slots : Deliver(s)

Next == DecksNext

Init == DecksInit(MaxClicks) /\ AuthIdle /\ ViewIdle /\ PlayerIdle /\ EditorIdle

Spec == Init /\ [][Next]_vars

\* The Decks page with two gestures, so that two handlers can overlap.
RaceInit == DecksInit(MaxRaceClicks) /\ AuthIdle /\ ViewIdle /\ PlayerIdle /\ EditorIdle

RaceSpec == RaceInit /\ [][Next]_vars

\* The backend answers every request and the browser hands every answer (or
\* network error) to the awaiting handler.
FairSpec ==
    /\ Spec
    /\ \A s \in Slots : WF_vars(ServerHandle(s) \/ ServerReject(s))
    /\ \A s \in Slots : WF_vars(Deliver(s))

\* ------------------------------------------------------------- claims
Mutations == {"deleteDeck", "deleteFolder", "moveDeck", "reorder"}

ErrorToasts == {"Failed to delete deck", "Failed to delete folder",
                "Failed to move deck", "Failed to reorder decks"}

\* The handler awaiting slot s takes its answer in this step.
Taken(s, kind, st) ==
    /\ reqs[s].kind = kind
    /\ reqs[s].st = st
    /\ reqs'[s].st # st

OthersUntouched(s) == \A u \in Slots \ {s} : reqs'[u] = reqs[u]

\* (id, folder_id, order_index) of every deck of a list, in list order.
Projection(ds) == [i \in 1..Len(ds) |-> <<ds[i].id, ds[i].folder_id, ds[i].order_index>>]

\* C1: a successful refetch of the decks that leaves no request in flight
\* leaves the local decks list (ids, folder_id, order_index) equal to the
\* server's current deck list, also when handlers overlapped and answers
\* arrived in any order.
C1_DecksEqualServerWhenIdle ==
    [][\A s \in Slots :
          (Taken(s, "getDecks", "ok") /\ \A u \in Slots : reqs'[u].kind = "free")
          => Projection(decks') = Projection(srvDecks')]_vars

\* C2: when the DELETE of handleDeleteFolder has succeeded and both refetches
\* it started have succeeded, the deleted folder is absent from local folders
\* and every deck that was in it (and that the backend still has at root) is
\* in local decks without a folder_id.
C2_DeletedFolderDecksAtRoot ==
    [][(/\ delOp'.dk = "ok" /\ delOp'.fo = "ok"
        /\ ~(delOp.dk = "ok" /\ delOp.fo = "ok"))
       => /\ delOp'.f \notin Range(folders')
          /\ \A i \in 1..Len(srvDecks') :
                (srvDecks'[i].id \in delOp'.members /\ srvDecks'[i].folder_id = NoFolder)
                => \E j \in 1..Len(decks') :
                      /\ decks'[j].id = srvDecks'[i].id
                      /\ decks'[j].folder_id = NoFolder]_vars

\* C3: when the mutating request of handleDeleteDeck, handleDeleteFolder,
\* moveDeckToFolder or handleReorderDecks fails, the handler issues no refetch
\* and leaves decks, folders and isLoading as they are; its only effect is the
\* error toast. Starting the handler changes none of them either.
C3_FailedMutationTouchesNothing ==
    [][\A s \in Slots :
          /\ (reqs[s].kind \in Mutations /\ Taken(s, reqs[s].kind, "err"))
             => /\ decks' = decks /\ folders' = folders /\ isLoading' = isLoading
                /\ reqs'[s].kind = "free"
                /\ OthersUntouched(s)
                /\ toast' \in ErrorToasts
          /\ (reqs[s].kind = "free" /\ reqs'[s].kind \in Mutations)
             => decks' = decks /\ folders' = folders /\ isLoading' = isLoading]_vars

\* A failed deletion has been handled while decks and folders are loaded.
C3_Witness ==
    /\ toast \in ErrorToasts
    /\ decks # <<>>
    /\ folders # <<>>
    /\ Idle

\* Number of cards the page renders for deck id: one per entry of rootDecks and
\* one per entry of the folderDecks of every folder of the local folders list.
DisplayCount(ds, fs, id) ==
    Cardinality({i \in 1..Len(rootDecks(ds)) : rootDecks(ds)[i].id = id})
    + Cardinality({p \in (1..Len(fs)) \X (1..Len(ds)) :
                      /\ p[2] <= Len(folderDecks(ds, fs[p[1]]))
                      /\ folderDecks(ds, fs[p[1]])[p[2]].id = id})

\* C9: fetchData starts both fetches; a failed folders fetch empties folders
\* and leaves the decks fetch and the decks alone, a failed decks fetch leaves
\* the folders fetch and the folders alone, each successful fetch stores its
\* answer, so that after the first load the decks are the server's unless the
\* decks fetch failed and the folders are the server's unless the folders
\* fetch failed; and isLoading is eventually false.
C9_IndependentLoading ==
    /\ [][(~mounted /\ mounted')
          => /\ \E s \in Slots : reqs'[s].kind = "getDecks" /\ reqs'[s].st = "sent"
             /\ \E s \in Slots : reqs'[s].kind = "getFolders" /\ reqs'[s].st = "sent"]_vars
    /\ [][\A s \in Slots :
            /\ Taken(s, "getFolders", "err")
               => folders' = <<>> /\ decks' = decks /\ OthersUntouched(s)
            /\ Taken(s, "getDecks", "err")
               => decks' = decks /\ folders' = folders /\ OthersUntouched(s)
            /\ Taken(s, "getDecks", "ok") => decks' = TransformDecks(reqs[s].dDecks)
            /\ Taken(s, "getFolders", "ok") => folders' = reqs[s].dFolders]_vars
    /\ []((mounted /\ Idle /\ clicks = 0 /\ toast = "")
          => Projection(decks) = Projection(srvDecks))
    /\ []((mounted /\ Idle /\ clicks = 0 /\ folders # <<>>) => folders = srvFolders)
    /\ ((mounted /\ isLoading) ~> ~isLoading)

\* The folders fetch of the first load failed and the decks are loaded.
C9_Witness ==
    /\ mounted /\ Idle /\ clicks = 0
    /\ folders = <<>>
    /\ ~isLoading
    /\ Projection(decks) = Projection(srvDecks)

\* C10: when the page is not loading (and nothing is in flight), every local
\* deck is displayed exactly once, under root or under the local folder whose
\* id is its folder_id; no local deck references a folder id that is missing
\* from local folders.
C10_EveryDeckVisible ==
    (mounted /\ ~isLoading /\ Idle)
    => \A i \in 1..Len(decks) :
          /\ DisplayCount(decks, folders, decks[i].id) = 1
          /\ decks[i].folder_id = NoFolder \/ decks[i].folder_id \in Range(folders)

\* ------------------------------------------------- FolderItem rendering
\* Longest deck list and largest order_index of the rendered lists.
MaxSortLen == 3
MaxOrderIndex == 1

SortIds == <<"d1", "d2", "d3", "d4", "d5">>

\* Every local deck list of up to MaxSortLen decks (ids in list order), each
\* deck at root or in a folder, with any order_index or none.
SortInputs ==
    UNION { { [i \in 1..n |-> Deck(SortIds[i], fo[i][1], fo[i][2])] :
                fo \in [1..n -> (FolderIds \cup {NoFolder}) \X ({NoIndex} \cup 0..MaxOrderIndex)] }
            : n \in 0..MaxSortLen }

SortInit ==
    /\ decks \in SortInputs
    /\ folders = <<"f1", "f2">>
    /\ isLoading = FALSE /\ toast = "" /\ mounted = TRUE /\ clicks = 0 /\ clickLimit = 0
    /\ srvDecks = <<>> /\ srvFolders = <<"f1", "f2">>
    /\ reqs = [s \in Slots |-> Free]
    /\ delOp = NoOp
    /\ AuthIdle /\ ViewIdle /\ PlayerIdle /\ EditorIdle

\* FolderItem({folder}): the cards and the "{folderDecks.length} decks" line.
FolderItem(folder) ==
    /\ ~isLoading
    /\ folder \in Range(folders)
    /\ viewFolder' = folder
    /\ viewDecks' = folderDecks(decks, folder)
    /\ viewCount' = Len(folderDecks(decks, folder))
    /\ UNCHANGED <<pageVars, reqs, authVars, playerVars, editorVars>>

SortNext == \E f \in FolderIds : FolderItem(f)

SortSpec == SortInit /\ [][SortNext]_vars

\* C8: the decks shown inside a folder are exactly the local decks whose
\* folder_id is the folder's id, in ascending order_index with a null or
\* missing order_index counted as 0 and ties kept in the order of the local
\* list; the count shown is the length of that list.
C8_FolderDeckOrdering ==
    viewFolder # ""
    => LET Key(d) == IF d.order_index = NoIndex THEN 0 ELSE d.order_index
           Pos(d) == CHOOSE i \in 1..Len(decks) : decks[i] = d
       IN /\ Range(viewDecks) = {d \in Range(decks) : d.folder_id = viewFolder}
          /\ Len(viewDecks) = Cardinality({i \in 1..Len(decks) : decks[i].folder_id = viewFolder})
          /\ \A i, j \in 1..Len(viewDecks) :
                i < j => \/ Key(viewDecks[i]) < Key(viewDecks[j])
                         \/ /\ Key(viewDecks[i]) = Key(viewDecks[j])
                            /\ Pos(viewDecks[i]) < Pos(viewDecks[j])
          /\ viewCount = Len(viewDecks)

\* A folder was rendered whose deck of order_index 0 comes before a later deck
\* of the list that has no order_index, behind both a deck of a larger index.
C8_Witness ==
    /\ viewFolder = "f1"
    /\ Len(viewDecks) = 3
    /\ viewDecks[1].order_index = 0
    /\ viewDecks[2].order_index = NoIndex
    /\ viewDecks[3].order_index > 0
    /\ IdsOf(viewDecks) # IdsOf(Filter(decks, LAMBDA d : d.folder_id = "f1"))

\* ------------------------------------------- auth service and routing
\* Number of user gestures (navigations, form submits, logout clicks) in one
\* run of the router and the auth service.
MaxAuthClicks == 3

\* Access tokens the backend issues; "t0" is the one of an earlier session.
Tokens == {"t0", "t1"}

\* App.tsx: the routes, with d1 for :deckId and /nowhere for the catch-all.
Routes == {"/", "/auth", "/decks", "/decks/new", "/decks/d1/edit",
           "/study/free-response/d1", "/study/mcq/d1", "/study/true-false/d1",
           "/nowhere"}

\* The element of each route inside its ProtectedRoute.
RouteElement(r) ==
    CASE r = "/" -> "Index"
      [] r = "/decks" -> "Decks"
      [] r \in {"/decks/new", "/decks/d1/edit"} -> "DeckEditor"
      [] r = "/study/free-response/d1" -> "StudyFreeResponse"
      [] r = "/study/mcq/d1" -> "StudyMCQ"
      [] r = "/study/true-false/d1" -> "StudyTrueFalse"
      [] r = "/auth" -> "Auth"
      [] OTHER -> "NotFound"

ProtectedRoutes == Routes \ {"/auth", "/nowhere"}

ProtectedPages == {RouteElement(r) : r \in ProtectedRoutes}

\* AuthService.isAuthenticated with null written "".
isAuthenticated(tk, us) == tk # "" /\ us # ""

\* What the router shows at route r: ProtectedRoute returns null ("none")
\* when the service is not authenticated, the children otherwise.
ProtectedRoute(r, tk, us) ==
    IF r \in ProtectedRoutes
    THEN IF isAuthenticated(tk, us) THEN RouteElement(r) ELSE "none"
    ELSE RouteElement(r)

\* `Bearer ${token}` of a raw fetch: a null token prints as "null".
BearerTemplate(v) == "Bearer " \o (IF v = "" THEN "null" ELSE v)

\* A request of fetch() with a hand-written Authorization header.
RawRequest(kind, header) ==
    [Free EXCEPT !.kind = kind, !.st = "sent", !.auth = header, !.via = "fetch"]

SignedOutStorage == [access_token |-> "", user |-> "", auth_token |-> ""]

\* The app has just loaded: the AuthService constructor copied localStorage,
\* the router shows the route the browser opened.
AuthInit ==
    /\ ls \in {SignedInStorage, SignedOutStorage}
    /\ token = ls.access_token
    /\ user = ls.user
    /\ route \in {"/", "/auth"}
    /\ page = ProtectedRoute(route, token, user)
    /\ headerBuild \in {"authService", "legacy"}
    /\ mounted = FALSE /\ isLoading = FALSE
    /\ clicks = 0 /\ clickLimit = MaxAuthClicks
    /\ decks = <<>> /\ folders = <<>> /\ toast = ""
    /\ srvDecks = <<>> /\ srvFolders = <<>>
    /\ reqs = [s \in Slots |-> Free]
    /\ delOp = NoOp
    /\ ViewIdle /\ PlayerIdle /\ EditorIdle

authFrame == <<decks, folders, toast, clickLimit, srvDecks, srvFolders, delOp,
               headerBuild, viewVars, playerVars, editorVars>>

\* The component that awaits a login or register has unmounted: its later
\* setIsLoading has no effect.
Unmount(rs) == [s \in Slots |-> [rs[s] EXCEPT !.live = FALSE]]

\* navigate(r) of react-router with the service fields tk, us: the matched
\* route's element is rendered; a route change mounts a new page.
navigate(r, tk, us, rs) ==
    /\ route' = r
    /\ page' = ProtectedRoute(r, tk, us)
    /\ IF r = route /\ page' = page
       THEN mounted' = mounted /\ isLoading' = isLoading /\ reqs' = rs
       ELSE mounted' = FALSE /\ isLoading' = FALSE /\ reqs' = Unmount(rs)

\* A link of the page or the browser's back/forward takes the router to r.
Navigate(r) ==
    /\ clicks < clickLimit
    /\ r # route
    /\ clicks' = clicks + 1
    /\ navigate(r, token, user, reqs)
    /\ UNCHANGED <<token, user, ls, authFrame>>

\* The requests a page's mount effect sends: Decks.fetchData (skipped when
\* the service is not authenticated), DeckEditor's fetchDeck (edit route
\* only), fetchDeckData of the two study pages.
MountRequests(rs) ==
    CASE page = "Decks" -> IF isAuthenticated(token, user) THEN fetchData(rs, FALSE) ELSE rs
      [] page = "DeckEditor" /\ route = "/decks/d1/edit" ->
            [rs EXCEPT ![FirstFree(rs)] = Request("getDeck", "d1", "", <<>>, "flashcards", FALSE)]
      [] page = "StudyTrueFalse" ->
            [rs EXCEPT ![FirstFree(rs)] = Request("getFlashcards", "d1", "", <<>>, "home", FALSE)]
      [] page = "StudyFreeResponse" ->
            [rs EXCEPT ![FirstFree(rs)] =
                [RawRequest("getSessionFlashcards", BearerTemplate(ls.auth_token))
                    EXCEPT !.deck = "d1", !.cont = "home"]]
      [] OTHER -> rs

MountNeeds == IF page = "Decks" THEN (IF isAuthenticated(token, user) THEN 2 ELSE 0)
              ELSE IF page \in {"StudyTrueFalse", "StudyFreeResponse"} THEN 1
              ELSE IF page = "DeckEditor" /\ route = "/decks/d1/edit" THEN 1
              ELSE 0

\* The effects after a mount: the page's own effect, then ProtectedRoute's
\* (and Index's) check, which navigates to /auth when not authenticated.
MountEffects ==
    /\ ~mounted
    /\ Cardinality(FreeSlots(reqs)) >= MountNeeds
    /\ IF route \in ProtectedRoutes /\ ~isAuthenticated(token, user)
       THEN navigate("/auth", token, user, MountRequests(reqs))
       ELSE /\ mounted' = TRUE
            /\ reqs' = MountRequests(reqs)
            /\ UNCHANGED <<route, page, isLoading>>
    /\ UNCHANGED <<token, user, ls, clicks, authFrame>>

\* Auth.handleLogin: the submit button is disabled while isLoading.
handleLogin ==
    /\ page = "Auth" /\ ~isLoading
    /\ clicks < clickLimit /\ FreeSlots(reqs) # {}
    /\ clicks' = clicks + 1
    /\ isLoading' = TRUE
    /\ reqs' = [reqs EXCEPT ![FirstFree(reqs)] =
                  [Request("login", "", "", <<>>, "none", FALSE) EXCEPT !.live = TRUE]]
    /\ UNCHANGED <<token, user, ls, route, page, mounted, authFrame>>

\* Auth.handleSignup with a form that passes its two password checks.
handleSignup ==
    /\ page = "Auth" /\ ~isLoading
    /\ clicks < clickLimit /\ FreeSlots(reqs) # {}
    /\ clicks' = clicks + 1
    /\ isLoading' = TRUE
    /\ reqs' = [reqs EXCEPT ![FirstFree(reqs)] =
                  [Request("register", "", "", <<>>, "none", FALSE) EXCEPT !.live = TRUE]]
    /\ UNCHANGED <<token, user, ls, route, page, mounted, authFrame>>

\* authService.logout() up to its await: POST /auth/logout is on its way.
logout(rs) == [rs EXCEPT ![FirstFree(rs)] = Request("logout", "", "", <<>>, "none", FALSE)]

PagesWithHeader == {"Index", "Decks", "DeckEditor", "StudyFreeResponse", "StudyTrueFalse"}

\* The Logout button of the Header. The Header that imports authService
\* calls logout() itself; the older Header removes three unused keys. Then
\* onLogout (Index.handleLogout: logout() and navigate; the other pages:
\* navigate) and navigate("/auth").
handleLogout ==
    /\ page \in PagesWithHeader
    /\ clicks < clickLimit
    /\ LET n == (IF headerBuild = "authService" THEN 1 ELSE 0) + (IF page = "Index" THEN 1 ELSE 0)
           rs1 == IF headerBuild = "authService" THEN logout(reqs) ELSE reqs
           rs2 == IF page = "Index" THEN logout(rs1) ELSE rs1
       IN /\ Cardinality(FreeSlots(reqs)) >= n
          /\ navigate("/auth", token, user, rs2)
    /\ ls' = IF headerBuild = "legacy" THEN [ls EXCEPT !.auth_token = ""] ELSE ls
    /\ clicks' = clicks + 1
    /\ UNCHANGED <<token, user, authFrame>>

\* The backend answers a request of the auth and page endpoints: it accepts
\* or rejects it; an accepted login or register carries a fresh access token.
AuthServerAnswer(s) ==
    /\ reqs[s].st = "sent"
    /\ \/ \E tk \in Tokens :
             /\ reqs[s].kind \in {"login", "register"}
             /\ reqs' = [reqs EXCEPT ![s].st = "ok", ![s].tok = tk]
       \/ /\ reqs[s].kind \notin {"login", "register"}
          /\ reqs' = [reqs EXCEPT ![s].st = "ok"]
       \/ reqs' = [reqs EXCEPT ![s].st = "err"]
    /\ UNCHANGED <<token, user, ls, route, page, mounted, isLoading, clicks, authFrame>>

\* The rest of Auth.handleLogin after `await authService.login(...)`:
\* login() stores the token and the user, the page navigates to "/"; on a
\* failure login() forgets token and user in memory only.
LoginDone(s) ==
    /\ reqs[s].kind = "login"
    /\ \/ /\ reqs[s].st = "ok"
          /\ token' = reqs[s].tok
          /\ user' = "u1"
          /\ ls' = [ls EXCEPT !.access_token = reqs[s].tok, !.user = "u1"]
          /\ navigate("/", token', user', Release(reqs, s))
       \/ /\ reqs[s].st = "err"
          /\ token' = ""
          /\ user' = ""
          /\ isLoading' = IF reqs[s].live THEN FALSE ELSE isLoading
          /\ reqs' = Release(reqs, s)
          /\ UNCHANGED <<ls, route, page, mounted>>
    /\ UNCHANGED <<clicks, authFrame>>

\* The rest of Auth.handleSignup after `await authService.register(...)`.
RegisterDone(s) ==
    /\ reqs[s].kind = "register"
    /\ \/ /\ reqs[s].st = "ok"
          /\ token' = reqs[s].tok
          /\ user' = "u1"
          /\ ls' = [ls EXCEPT !.access_token = reqs[s].tok, !.user = "u1"]
          /\ navigate("/", token', user', Release(reqs, s))
       \/ /\ reqs[s].st = "err"
          /\ isLoading' = IF reqs[s].live THEN FALSE ELSE isLoading
          /\ reqs' = Release(reqs, s)
          /\ UNCHANGED <<token, user, ls, route, page, mounted>>
    /\ UNCHANGED <<clicks, authFrame>>

\* logout() after its await: whatever the answer, the finally block clears
\* the service fields and the two localStorage keys.
LogoutDone(s) ==
    /\ reqs[s].kind = "logout"
    /\ reqs[s].st \in {"ok", "err"}
    /\ token' = ""
    /\ user' = ""
    /\ ls' = [ls EXCEPT !.access_token = "", !.user = ""]
    /\ reqs' = Release(reqs, s)
    /\ UNCHANGED <<route, page, mounted, isLoading, clicks, authFrame>>

\* A page takes the answer of a mount request. fetchDeck of the editor goes
\* on to GET the flashcards; the study pages navigate to "/" on a failure.
PageDataDone(s) ==
    /\ reqs[s].kind \in {"getDecks", "getFolders", "getDeck", "getFlashcards", "getSessionFlashcards"}
    /\ reqs[s].st \in {"ok", "err"}
    /\ IF reqs[s].st = "ok" /\ reqs[s].cont = "flashcards"
       THEN /\ reqs' = [reqs EXCEPT ![s] =
                          [Request("getFlashcards", "d1", "", <<>>, "none", FALSE)
                              EXCEPT !.live = reqs[s].live]]
            /\ UNCHANGED <<route, page, mounted, isLoading>>
       ELSE IF reqs[s].st = "err" /\ reqs[s].cont = "home"
       THEN navigate("/", token, user, Release(reqs, s))
       ELSE /\ reqs' = Release(reqs, s)
            /\ UNCHANGED <<route, page, mounted, isLoading>>
    /\ UNCHANGED <<token, user, ls, clicks, authFrame>>

AuthNext ==
    \/ \E r \in Routes : Navigate(r)
    \/ MountEffects
    \/ handleLogin
    \/ handleSignup
    \/ handleLogout
    \/ \E s \in Slots : AuthServerAnswer(s)
    \/ \E s \in Slots : LoginDone(s)
    \/ \E s \in Slots : RegisterDone(s)
    \/ \E s \in Slots : LogoutDone(s)
    \/ \E s \in Slots : PageDataDone(s)

AuthSpec == AuthInit /\ [][AuthNext]_vars

\* C4: a page of a protected route is on screen, with the effects of its
\* mount done, only while authService.isAuthenticated() is true.
C4_ProtectedPageOnlyWhenAuthenticated ==
    (page \in ProtectedPages /\ mounted) => isAuthenticated(token, user)

\* C5: while the service holds the access token of a login or register and
\* no logout has started, every request the client sends carries
\* Authorization: Bearer <that token>.
C5_BearerOnEveryRequest ==
    [][\A s \in Slots :
          (/\ reqs[s].kind = "free" /\ reqs'[s].kind # "free"
           /\ isAuthenticated(token, user) /\ ls.access_token = token
           /\ \A u \in Slots : reqs[u].kind # "logout")
          => reqs'[s].auth = "Bearer " \o token]_vars

\* ------------------------------------------------------ podcast player
\* Length of every podcast, in timeupdate ticks.
MaxAudioTime == 3

\* The Decks page with its lists loaded and nothing in flight.
PlayerInit ==
    /\ \E data \in SortInputs : decks = TransformDecks(data) /\ srvDecks = data
    /\ folders = <<"f1", "f2">> /\ srvFolders = <<"f1", "f2">>
    /\ isLoading = FALSE /\ toast = "" /\ mounted = TRUE
    /\ clicks = 0 /\ clickLimit = 0
    /\ reqs = [s \in Slots |-> Free]
    /\ delOp = NoOp
    /\ AuthIdle /\ ViewIdle /\ PlayerIdle /\ EditorIdle

playerFrame == <<pageVars, reqs, authVars, viewVars, editorVars>>

\* The player's effect on [podcastUrl, isOpen, onStop]. onStop is a new
\* function on every render of Decks, so the effect runs after each of them:
\* the cleanup pauses and empties the old Audio, then a new Audio(podcastUrl)
\* is created and, when the sheet is open, play() is called.
PlayerEffect(url, open, old) ==
    IF url = ""
    THEN IF old.st = "none" THEN old ELSE [src |-> "", st |-> "idle", time |-> 0]
    ELSE [src |-> url, st |-> IF open THEN "starting" ELSE "idle", time |-> 0]

\* Decks.handlePlayPodcast(deck), from a deck card's podcast button.
handlePlayPodcast(id) ==
    /\ ~isLoading
    /\ id \in Ids(decks)
    /\ IF LocalDeck(id).podcast_audio_url = ""
       THEN UNCHANGED playerVars
       ELSE /\ currentPodcast' = [url |-> LocalDeck(id).podcast_audio_url, deckId |-> id,
                                  folderId |-> IF LocalDeck(id).folder_id = NoFolder
                                               THEN "" ELSE LocalDeck(id).folder_id]
            /\ isPodcastPlayerOpen' = TRUE
            /\ audio' = PlayerEffect(currentPodcast'.url, TRUE, audio)
            /\ UNCHANGED isPlaying
    /\ UNCHANGED playerFrame

\* audio.play() of the effect resolves: setIsPlaying(true).
PlayStarted ==
    /\ audio.st = "starting"
    /\ audio' = [audio EXCEPT !.st = "playing"]
    /\ isPlaying' = TRUE
    /\ UNCHANGED <<currentPodcast, isPodcastPlayerOpen, playerFrame>>

\* audio.play() of the effect is refused by the browser: only logged.
PlayBlocked ==
    /\ audio.st = "starting"
    /\ audio' = [audio EXCEPT !.st = "paused"]
    /\ UNCHANGED <<currentPodcast, isPodcastPlayerOpen, isPlaying, playerFrame>>

\* The audio element plays on by one tick.
TimeUpdate ==
    /\ audio.st = "playing"
    /\ audio.time < MaxAudioTime
    /\ audio' = [audio EXCEPT !.time = audio.time + 1]
    /\ UNCHANGED <<currentPodcast, isPodcastPlayerOpen, isPlaying, playerFrame>>

\* PodcastPlayer.handlePlayPause, from the open sheet's button.
handlePlayPause ==
    /\ currentPodcast.url # "" /\ isPodcastPlayerOpen
    /\ audio.st # "none"
    /\ IF isPlaying
       THEN audio' = [audio EXCEPT !.st = "paused"] /\ isPlaying' = FALSE
       ELSE audio' = [audio EXCEPT !.st = "playing"] /\ isPlaying' = TRUE
    /\ UNCHANGED <<currentPodcast, isPodcastPlayerOpen, playerFrame>>

\* PodcastPlayer.handleSeek, from the open sheet's slider: the audio element
\* jumps to the chosen time (the duration is known once the audio loaded).
handleSeek(newTime) ==
    /\ currentPodcast.url # "" /\ isPodcastPlayerOpen
    /\ audio.st \in {"playing", "paused"}
    /\ newTime # audio.time
    /\ audio' = [audio EXCEPT !.time = newTime]
    /\ UNCHANGED <<currentPodcast, isPodcastPlayerOpen, isPlaying, playerFrame>>

\* The sheet is dismissed: onClose = () => setIsPodcastPlayerOpen(false).
onClose ==
    /\ currentPodcast.url # "" /\ isPodcastPlayerOpen
    /\ isPodcastPlayerOpen' = FALSE
    /\ audio' = PlayerEffect(currentPodcast.url, FALSE, audio)
    /\ UNCHANGED <<currentPodcast, isPlaying, playerFrame>>

\* The 'ended' listener: setIsPlaying(false); setCurrentTime(0); onStop(),
\* which is Decks.handleStopPodcast.
Ended ==
    /\ audio.st = "playing"
    /\ audio.time = MaxAudioTime
    /\ isPlaying' = FALSE
    /\ currentPodcast' = NoPodcast
    /\ isPodcastPlayerOpen' = FALSE
    /\ audio' = PlayerEffect("", FALSE, audio)
    /\ UNCHANGED playerFrame

PlayerNext ==
    \/ \E id \in DeckIds : handlePlayPodcast(id)
    \/ PlayStarted
    \/ PlayBlocked
    \/ TimeUpdate
    \/ handlePlayPause
    \/ \E newTime \in 0..MaxAudioTime : handleSeek(newTime)
    \/ onClose
    \/ Ended

PlayerSpec == PlayerInit /\ [][PlayerNext]_vars

\* The decks that follow deck id in its folder's order and have a podcast.
LaterPodcasts(ds, id) ==
    LET inFolder == folderDecks(ds, ds[IndexOfDeck(ds, id)].folder_id)
        at == IndexOfDeck(inFolder, id)
    IN {k \in (at + 1)..Len(inFolder) : inFolder[k].podcast_audio_url # ""}

\* C6: when the podcast of a deck in a folder finishes and a later deck of the
\* folder (by order_index) has a podcast, the first such deck's podcast
\* becomes the current one with the player open.
C6_FolderAutoplay ==
    [][(/\ Ended
        /\ currentPodcast.folderId # ""
        /\ LaterPodcasts(decks, currentPodcast.deckId) # {})
       => LET inFolder == folderDecks(decks, currentPodcast.folderId)
              k == CHOOSE k \in LaterPodcasts(decks, currentPodcast.deckId) :
                      \A j \in LaterPodcasts(decks, currentPodcast.deckId) : k <= j
          IN /\ currentPodcast'.deckId = inFolder[k].id
             /\ currentPodcast'.url = inFolder[k].podcast_audio_url
             /\ isPodcastPlayerOpen']_vars

\* ---------------------------------------- deck editor: podcast generation
\* Largest number of flashcards in the editor.
MaxCards == 2
\* Number of calls of handleGeneratePodcast in one run of the editor.
MaxEditorClicks == 1

\* What a question or an answer field may hold: nothing, blanks, text.
Texts == {"", " ", "q"}

\* String.prototype.trim on the texts above.
trim(s) == IF s = " " THEN "" ELSE s

Card(q, a) == [question |-> q, answer |-> a]

\* The editor's first flashcard: { question: "", answer: "", ... }.
BlankCard == Card("", "")

Cards == {Card(q, a) : q, a \in Texts}

\* flashcards.filter(f => f.question.trim() && f.answer.trim())
validFlashcards(cards) ==
    Filter(cards, LAMBDA f : trim(f.question) # "" /\ trim(f.answer) # "")

\* The editor once it has rendered: a new deck (no deckId, one blank card) or
\* a saved deck after fetchDeck set the podcast url and the flashcards.
EditorInit ==
    /\ deckId \in {"", "d1"}
    /\ IF deckId = ""
       THEN flashcards = <<BlankCard>> /\ podcastAudioUrl = ""
       ELSE /\ flashcards \in UNION {[1..n -> Cards] : n \in 1..MaxCards}
            /\ podcastAudioUrl \in {"", PodcastUrl("d1")}
    /\ generatingPodcast = FALSE
    /\ podcastProgress = 0
    /\ deckTitle = "" /\ saving = FALSE /\ recordingStates = {}
    /\ token = "t0" /\ user = "u1" /\ ls = SignedInStorage
    /\ route = (IF deckId = "" THEN "/decks/new" ELSE "/decks/d1/edit")
    /\ page = "DeckEditor"
    /\ headerBuild = "authService"
    /\ decks = <<>> /\ folders = <<>> /\ isLoading = FALSE /\ toast = ""
    /\ mounted = TRUE /\ clicks = 0 /\ clickLimit = MaxEditorClicks
    /\ srvDecks = <<>> /\ srvFolders = <<>>
    /\ reqs = [s \in Slots |-> Free]
    /\ delOp = NoOp
    /\ ViewIdle /\ PlayerIdle

editorFrame == <<decks, folders, isLoading, mounted, clickLimit, srvDecks, srvFolders,
                 delOp, authVars, viewVars, playerVars, deckId, deckTitle, saving,
                 recordingStates>>

addFlashcard ==
    /\ Len(flashcards) < MaxCards
    /\ flashcards' = Append(flashcards, BlankCard)
    /\ UNCHANGED <<generatingPodcast, podcastProgress, podcastAudioUrl, toast, clicks, reqs, editorFrame>>

\* The remove button is rendered when flashcards.length > 1.
removeFlashcard(index) ==
    /\ Len(flashcards) > 1
    /\ index \in 1..Len(flashcards)
    /\ flashcards' = [i \in 1..(Len(flashcards) - 1) |->
                         IF i < index THEN flashcards[i] ELSE flashcards[i + 1]]
    /\ UNCHANGED <<generatingPodcast, podcastProgress, podcastAudioUrl, toast, clicks, reqs, editorFrame>>

\* updateFlashcard(index, field, value) for the question and answer fields.
updateFlashcard(index, field, value) ==
    /\ index \in 1..Len(flashcards)
    /\ flashcards[index][field] # value
    /\ flashcards' = [flashcards EXCEPT ![index][field] = value]
    /\ UNCHANGED <<generatingPodcast, podcastProgress, podcastAudioUrl, toast, clicks, reqs, editorFrame>>

\* handleGeneratePodcast up to its await. The handler is looked at in every
\* state of the editor, also where its button is hidden or disabled.
handleGeneratePodcast ==
    /\ clicks < clickLimit
    /\ clicks' = clicks + 1
    /\ IF deckId = ""
       THEN /\ toast' = "Please save the deck first before generating a podcast."
            /\ UNCHANGED <<generatingPodcast, podcastProgress, reqs>>
       ELSE IF Len(validFlashcards(flashcards)) = 0
       THEN /\ toast' = "Please add at least one flashcard before generating a podcast."
            /\ UNCHANGED <<generatingPodcast, podcastProgress, reqs>>
       ELSE /\ FreeSlots(reqs) # {}
            /\ generatingPodcast' = TRUE
            /\ podcastProgress' = 0
            /\ reqs' = [reqs EXCEPT ![FirstFree(reqs)] =
                           Request("generatePodcast", deckId, "", <<>>, "none", FALSE)]
            /\ UNCHANGED toast
    /\ UNCHANGED <<flashcards, podcastAudioUrl, editorFrame>>

\* The handler's 500 ms interval while its request is out:
\* prev >= 90 ? 90 : prev + 5.
ProgressTick ==
    /\ \E s \in Slots : reqs[s].kind = "generatePodcast"
    /\ podcastProgress' = IF podcastProgress >= 90 THEN 90 ELSE podcastProgress + 5
    /\ podcastProgress' # podcastProgress
    /\ UNCHANGED <<flashcards, generatingPodcast, podcastAudioUrl, toast, clicks, reqs, editorFrame>>

\* POST /decks/{id}/generate-podcast at the backend: a podcast file and its
\* url, or an error.
GeneratePodcastServer(s) ==
    /\ reqs[s].kind = "generatePodcast" /\ reqs[s].st = "sent"
    /\ \/ reqs' = [reqs EXCEPT ![s].st = "ok", ![s].url = "new-" \o PodcastUrl(reqs[s].deck)]
       \/ reqs' = [reqs EXCEPT ![s].st = "err"]
    /\ UNCHANGED <<flashcards, generatingPodcast, podcastProgress, podcastAudioUrl, toast, clicks, editorFrame>>

\* The handler without its finally block.
GeneratePodcastDone_NoFinally(s) ==
    /\ reqs[s].kind = "generatePodcast"
    /\ \/ /\ reqs[s].st = "ok"
          /\ podcastProgress' = 100
          /\ podcastAudioUrl' = reqs[s].url
          /\ toast' = "Podcast generated successfully! You can now play it from the decks page."
          /\ generatingPodcast' = FALSE
       \/ /\ reqs[s].st = "err"
          /\ podcastProgress' = 0
          /\ toast' = "Failed to generate podcast. Please try again."
          /\ UNCHANGED <<podcastAudioUrl, generatingPodcast>>
    /\ reqs' = Release(reqs, s)
    /\ UNCHANGED <<flashcards, clicks, editorFrame>>

\* handleGeneratePodcast after its await: try, catch and finally.
GeneratePodcastDone(s) ==
    /\ reqs[s].kind = "generatePodcast"
    /\ \/ /\ reqs[s].st = "ok"
          /\ podcastProgress' = 100
          /\ podcastAudioUrl' = reqs[s].url
          /\ toast' = "Podcast generated successfully! You can now play it from the decks page."
       \/ /\ reqs[s].st = "err"
          /\ podcastProgress' = 0
          /\ toast' = "Failed to generate podcast. Please try again."
          /\ UNCHANGED podcastAudioUrl
    /\ generatingPodcast' = FALSE
    /\ reqs' = Release(reqs, s)
    /\ UNCHANGED <<flashcards, clicks, editorFrame>>

\* setTimeout(() => setPodcastProgress(0), 1000) after a success.
ProgressReset ==
    /\ podcastProgress = 100
    /\ podcastProgress' = 0
    /\ UNCHANGED <<flashcards, generatingPodcast, podcastAudioUrl, toast, clicks, reqs, editorFrame>>

EditorNext ==
    \/ addFlashcard
    \/ \E i \in 1..MaxCards : removeFlashcard(i)
    \/ \E i \in 1..MaxCards, field \in {"question", "answer"}, value \in Texts :
          updateFlashcard(i, field, value)
    \/ handleGeneratePodcast
    \/ ProgressTick
    \/ \E s \in Slots : GeneratePodcastServer(s)
    \/ \E s \in Slots : GeneratePodcastDone(s)
    \/ ProgressReset

EditorSpec == EditorInit /\ [][EditorNext]_vars

\* A flashcard whose question and answer both hold more than blanks.
NonBlankCard(f) == f.question \notin {"", " "} /\ f.answer \notin {"", " "}

CanGenerate == deckId # "" /\ \E i \in 1..Len(flashcards) : NonBlankCard(flashcards[i])

\* C7: POST /decks/{id}/generate-podcast is sent only by a call of
\* handleGeneratePodcast in an editor that has a deckId and at least one
\* flashcard with non-blank question and answer, and such a call sends it for
\* that deck; any other call sends nothing and leaves the editor's state
\* alone (it only shows an error toast). podcastAudioUrl changes only in the
\* step that takes a successful answer, to the url of that answer, and every
\* step that takes an answer, successful or not, leaves generatingPodcast
\* false.
C7_GeneratePodcastGuards ==
    [][/\ \A s \in Slots :
             (reqs[s].kind = "free" /\ reqs'[s].kind = "generatePodcast")
             => /\ CanGenerate
                /\ clicks' = clicks + 1
                /\ reqs'[s].deck = deckId /\ reqs'[s].st = "sent"
       /\ (clicks' # clicks /\ CanGenerate)
          => /\ \E s \in Slots : reqs[s].kind = "free" /\ reqs'[s].kind = "generatePodcast"
             /\ generatingPodcast'
       /\ (clicks' # clicks /\ ~CanGenerate)
          => /\ reqs' = reqs
             /\ UNCHANGED <<deckId, flashcards, generatingPodcast, podcastProgress, podcastAudioUrl>>
             /\ toast' \in {"Please save the deck first before generating a podcast.",
                            "Please add at least one flashcard before generating a podcast."}
       /\ podcastAudioUrl' # podcastAudioUrl
          => \E s \in Slots : Taken(s, "generatePodcast", "ok") /\ podcastAudioUrl' = reqs[s].url
       /\ \A s \in Slots :
             (reqs[s].kind = "generatePodcast" /\ reqs'[s].kind = "free")
             => /\ reqs[s].st \in {"ok", "err"}
                /\ ~generatingPodcast'
                /\ reqs[s].st = "err" => podcastAudioUrl' = podcastAudioUrl]_vars

\* A call in an editor with a deckId and a non-blank flashcard was answered
\* with a new podcast: the url is set, the progress bar is full, nothing is
\* generating and nothing is in flight.
C7_Witness ==
    /\ podcastAudioUrl = "new-" \o PodcastUrl("d1")
    /\ podcastProgress = 100
    /\ ~generatingPodcast
    /\ Idle
    /\ clicks = 1

\* ------------------------------------------- AuthService and api.ts calls
\* Number of calls of the service and of the api.ts wrappers in one run.
MaxServiceCalls == 2

\* User records the backend may return: the stored one and an updated one.
Users == {"u1", "u2"}

\* The access token the backend issues for a user.
TokenOf(us) == IF us = "u1" THEN "t0" ELSE "t1"

Wrappers == {"apiGet", "apiPost", "apiPut", "apiDelete", "apiUpload"}

\* A wrapper of api.ts up to `await fetch(...)`: one request, with the
\* Authorization header built from localStorage at call time.
ApiRequest(wrapper, kind) ==
    [Request(kind, "", "", <<>>, "none", FALSE) EXCEPT !.via = wrapper]

\* The module has just been loaded: the constructor copied localStorage.
ServiceInit ==
    /\ ls \in {SignedInStorage, SignedOutStorage}
    /\ token = ls.access_token
    /\ user = ls.user
    /\ route = "/auth" /\ page = "Auth" /\ headerBuild = "authService"
    /\ mounted = TRUE /\ isLoading = FALSE
    /\ clicks = 0 /\ clickLimit = MaxServiceCalls
    /\ decks = <<>> /\ folders = <<>> /\ toast = ""
    /\ srvDecks = <<>> /\ srvFolders = <<>>
    /\ reqs = [s \in Slots |-> Free]
    /\ delOp = NoOp
    /\ ViewIdle /\ PlayerIdle /\ EditorIdle

serviceFrame == <<decks, folders, isLoading, toast, mounted, clickLimit, srvDecks,
                  srvFolders, delOp, route, page, headerBuild, viewVars, playerVars,
                  editorVars>>

\* A caller starts wrapper(endpoint): login, register, logout, getCurrentUser
\* and updateCurrentUser of the service, or any other caller ("resource").
ServiceCall(wrapper, kind) ==
    /\ clicks < clickLimit
    /\ FreeSlots(reqs) # {}
    /\ clicks' = clicks + 1
    /\ reqs' = [reqs EXCEPT ![FirstFree(reqs)] = ApiRequest(wrapper, kind)]
    /\ UNCHANGED <<token, user, ls, serviceFrame>>

login == ServiceCall("apiPost", "login")

register == ServiceCall("apiPost", "register")

logoutCall == ServiceCall("apiPost", "logout")

getCurrentUser == ServiceCall("apiGet", "getCurrentUser")

updateCurrentUser == ServiceCall("apiPost", "updateCurrentUser")

\* The network and the backend: an OK response with a JSON body, a response
\* that is not OK, or no response at all (fetch rejects).
ServiceBackend(s) ==
    /\ reqs[s].st = "sent"
    /\ \/ \E us \in Users :
             reqs' = [reqs EXCEPT ![s].st = "ok", ![s].tok = TokenOf(us), ![s].usr = us]
       \/ reqs' = [reqs EXCEPT ![s].st = "err"]
       \/ reqs' = [reqs EXCEPT ![s].st = "lost"]
    /\ UNCHANGED <<token, user, ls, clicks, serviceFrame>>

\* A wrapper without the check of response.ok.
ApiOutcome_NoOkCheck(r) ==
    IF r.st = "lost"
    THEN [r EXCEPT !.apiResult = "threw"]
    ELSE [r EXCEPT !.apiResult = "returned", !.data = <<r.tok, r.usr>>]

\* The wrapper after its await: `if (!response.ok) throw ...; return
\* response.json()`. A rejected fetch throws as well.
ApiOutcome(r) ==
    IF r.st = "ok"
    THEN [r EXCEPT !.apiResult = "returned", !.data = <<r.tok, r.usr>>]
    ELSE [r EXCEPT !.apiResult = "threw"]

Answered(s, kind) == reqs[s].kind = kind /\ reqs[s].st \in {"ok", "err", "lost"} /\ reqs[s].settled = ""

\* A caller of a wrapper other than the service: it gets the data or the error.
apiSettled(s) ==
    /\ Answered(s, "resource")
    /\ reqs' = [reqs EXCEPT ![s] =
                  [ApiOutcome(reqs[s]) EXCEPT
                      !.settled = IF reqs[s].st = "ok" THEN "resolved" ELSE "rejected"]]
    /\ UNCHANGED <<token, user, ls, clicks, serviceFrame>>

\* AuthService.login after its await.
loginSettled(s) ==
    /\ Answered(s, "login")
    /\ IF reqs[s].st = "ok"
       THEN /\ token' = reqs[s].tok
            /\ user' = reqs[s].usr
            /\ ls' = [ls EXCEPT !.access_token = reqs[s].tok, !.user = reqs[s].usr]
            /\ reqs' = [reqs EXCEPT ![s] = [ApiOutcome(reqs[s]) EXCEPT !.settled = "resolved"]]
       ELSE /\ token' = ""
            /\ user' = ""
            /\ ls' = ls
            /\ reqs' = [reqs EXCEPT ![s] = [ApiOutcome(reqs[s]) EXCEPT !.settled = "rejected"]]
    /\ UNCHANGED <<clicks, serviceFrame>>

\* AuthService.register after its await.
registerSettled(s) ==
    /\ Answered(s, "register")
    /\ IF reqs[s].st = "ok"
       THEN /\ token' = reqs[s].tok
            /\ user' = reqs[s].usr
            /\ ls' = [ls EXCEPT !.access_token = reqs[s].tok, !.user = reqs[s].usr]
            /\ reqs' = [reqs EXCEPT ![s] = [ApiOutcome(reqs[s]) EXCEPT !.settled = "resolved"]]
       ELSE /\ UNCHANGED <<token, user, ls>>
            /\ reqs' = [reqs EXCEPT ![s] = [ApiOutcome(reqs[s]) EXCEPT !.settled = "rejected"]]
    /\ UNCHANGED <<clicks, serviceFrame>>

\* AuthService.logout whose finally block runs only after a success.
logoutSettled_ClearOnSuccess(s) ==
    /\ Answered(s, "logout")
    /\ IF reqs[s].st = "ok"
       THEN token' = "" /\ user' = "" /\ ls' = [ls EXCEPT !.access_token = "", !.user = ""]
       ELSE UNCHANGED <<token, user, ls>>
    /\ reqs' = [reqs EXCEPT ![s] = [ApiOutcome(reqs[s]) EXCEPT !.settled = "resolved"]]
    /\ UNCHANGED <<clicks, serviceFrame>>

\* AuthService.logout after its await: catch logs, finally clears.
logoutSettled(s) ==
    /\ Answered(s, "logout")
    /\ token' = ""
    /\ user' = ""
    /\ ls' = [ls EXCEPT !.access_token = "", !.user = ""]
    /\ reqs' = [reqs EXCEPT ![s] = [ApiOutcome(reqs[s]) EXCEPT !.settled = "resolved"]]
    /\ UNCHANGED <<clicks, serviceFrame>>

\* AuthService.getCurrentUser whose catch block keeps the token.
getCurrentUserSettled_KeepToken(s) ==
    /\ Answered(s, "getCurrentUser")
    /\ IF reqs[s].st = "ok"
       THEN /\ user' = reqs[s].usr
            /\ ls' = [ls EXCEPT !.user = reqs[s].usr]
            /\ token' = token
            /\ reqs' = [reqs EXCEPT ![s] = [ApiOutcome(reqs[s]) EXCEPT !.settled = "resolved"]]
       ELSE /\ user' = ""
            /\ ls' = [ls EXCEPT !.user = ""]
            /\ token' = token
            /\ reqs' = [reqs EXCEPT ![s] = [ApiOutcome(reqs[s]) EXCEPT !.settled = "rejected"]]
    /\ UNCHANGED <<clicks, serviceFrame>>

\* AuthService.getCurrentUser after its await.
getCurrentUserSettled(s) ==
    /\ Answered(s, "getCurrentUser")
    /\ IF reqs[s].st = "ok"
       THEN /\ user' = reqs[s].usr
            /\ ls' = [ls EXCEPT !.user = reqs[s].usr]
            /\ token' = token
            /\ reqs' = [reqs EXCEPT ![s] = [ApiOutcome(reqs[s]) EXCEPT !.settled = "resolved"]]
       ELSE /\ token' = ""
            /\ user' = ""
            /\ ls' = [ls EXCEPT !.access_token = "", !.user = ""]
            /\ reqs' = [reqs EXCEPT ![s] = [ApiOutcome(reqs[s]) EXCEPT !.settled = "rejected"]]
    /\ UNCHANGED <<clicks, serviceFrame>>

\* AuthService.updateCurrentUser after its await.
updateCurrentUserSettled(s) ==
    /\ Answered(s, "updateCurrentUser")
    /\ IF reqs[s].st = "ok"
       THEN /\ user' = reqs[s].usr
            /\ ls' = [ls EXCEPT !.user = reqs[s].usr]
            /\ token' = token
            /\ reqs' = [reqs EXCEPT ![s] = [ApiOutcome(reqs[s]) EXCEPT !.settled = "resolved"]]
       ELSE /\ UNCHANGED <<token, user, ls>>
            /\ reqs' = [reqs EXCEPT ![s] = [ApiOutcome(reqs[s]) EXCEPT !.settled = "rejected"]]
    /\ UNCHANGED <<clicks, serviceFrame>>

\* The caller has consumed the settled promise.
Forget(s) ==
    /\ reqs[s].settled # ""
    /\ reqs' = [reqs EXCEPT ![s] = Free]
    /\ UNCHANGED <<token, user, ls, clicks, serviceFrame>>

ServiceNext ==
    \/ login
    \/ register
    \/ logoutCall
    \/ getCurrentUser
    \/ updateCurrentUser
    \/ \E w \in Wrappers : ServiceCall(w, "resource")
    \/ \E s \in Slots : ServiceBackend(s)
    \/ \E s \in Slots : loginSettled(s)
    \/ \E s \in Slots : registerSettled(s)
    \/ \E s \in Slots : logoutSettled(s)
    \/ \E s \in Slots : getCurrentUserSettled(s)
    \/ \E s \in Slots : updateCurrentUserSettled(s)
    \/ \E s \in Slots : apiSettled(s)
    \/ \E s \in Slots : Forget(s)

ServiceSpec == ServiceInit /\ [][ServiceNext]_vars

\* The promise of the call in slot s settles in this step.
Settles(s, kind) == reqs[s].kind = kind /\ reqs[s].settled = "" /\ reqs'[s].settled # ""

\* C11: when logout() completes, whether the logout request succeeded or
\* failed, the in-memory token and user are null, localStorage holds neither
\* access_token nor user, isAuthenticated() is false, and logout did not throw.
C11_LogoutClearsRegardless ==
    [][\A s \in Slots : Settles(s, "logout") =>
          /\ token' = "" /\ user' = ""
          /\ ls'.access_token = "" /\ ls'.user = ""
          /\ ~isAuthenticated(token', user')
          /\ reqs'[s].settled = "resolved"]_vars

\* A logout whose request failed has completed, while a session existed
\* before it was answered, and everything is cleared.
C11_Witness ==
    \E s \in Slots :
        /\ reqs[s].kind = "logout" /\ reqs[s].st \in {"err", "lost"}
        /\ reqs[s].auth # ""
        /\ reqs[s].settled = "resolved"
        /\ token = "" /\ user = "" /\ ls.access_token = "" /\ ls.user = ""

\* ------------------------------------------------- the Header's Logout
\* A signed-in user on a protected page that shows the Header, with either
\* Header of the repository; they click Logout once.
LogoutInit ==
    /\ ls = SignedInStorage
    /\ token = ls.access_token
    /\ user = ls.user
    /\ route \in {r \in ProtectedRoutes : RouteElement(r) \in PagesWithHeader}
    /\ page = ProtectedRoute(route, token, user)
    /\ headerBuild \in {"authService", "legacy"}
    /\ mounted = FALSE /\ isLoading = FALSE
    /\ clicks = 0 /\ clickLimit = MaxRaceClicks
    /\ decks = <<>> /\ folders = <<>> /\ toast = ""
    /\ srvDecks = <<>> /\ srvFolders = <<>>
    /\ reqs = [s \in Slots |-> Free]
    /\ delOp = NoOp
    /\ ViewIdle /\ PlayerIdle /\ EditorIdle

\* The Logout click and what follows it; a later visit of a route starts
\* from the Auth page the Header navigated to.
LogoutNext ==
    \/ \E r \in Routes : page = "Auth" /\ Navigate(r)
    \/ MountEffects
    \/ handleLogout
    \/ \E s \in Slots : AuthServerAnswer(s)
    \/ \E s \in Slots : LogoutDone(s)
    \/ \E s \in Slots : PageDataDone(s)

\* Every request is answered and every answer reaches its awaiting handler.
LogoutSpec ==
    /\ LogoutInit
    /\ [][LogoutNext]_vars
    /\ \A s \in Slots : WF_vars(AuthServerAnswer(s))
    /\ \A s \in Slots : WF_vars(LogoutDone(s))
    /\ \A s \in Slots : WF_vars(PageDataDone(s))
    /\ WF_vars(MountEffects)

\* C12: after the Logout button of the Header has been clicked on a protected
\* page, eventually isAuthenticated() is false and the stored access_token is
\* removed. The first click of a run is the Logout button.
C12_HeaderLogoutEndsSession ==
    (clicks > 0) ~> (~isAuthenticated(token, user) /\ ls.access_token = "")

\* C13: when a login has succeeded while an older logout was still pending
\* (the service holds a session whose token is not the one the logout
\* request carried), the step in which that logout finishes keeps the token
\* and the user of the login, in memory and in localStorage.
C13_NewSessionSurvivesOlderLogout ==
    [][\A s \in Slots :
          (/\ reqs[s].kind = "logout" /\ reqs'[s].kind # "logout"
           /\ isAuthenticated(token, user)
           /\ reqs[s].auth # "Bearer " \o token)
          => /\ token' = token /\ user' = user
             /\ ls'.access_token = ls.access_token /\ ls'.user = ls.user]_vars

\* C14: after the construction of the service and after every call of login,
\* register, logout, getCurrentUser and updateCurrentUser, successful or not,
\* the in-memory token equals localStorage's access_token and the in-memory
\* user equals the parsed localStorage user.
C14_AuthStateMirrorsStorage ==
    token = ls.access_token /\ user = ls.user

\* C15: when getCurrentUser settles after a failed request, token and user
\* are null, access_token and user are removed from localStorage and the
\* error is rethrown; after a successful one only the user is replaced, in
\* memory and in localStorage, and the token is unchanged in both.
C15_GetCurrentUserOutcome ==
    [][\A s \in Slots : Settles(s, "getCurrentUser") =>
          IF reqs[s].st = "ok"
          THEN /\ user' = reqs[s].usr /\ ls'.user = reqs[s].usr
               /\ token' = token /\ ls'.access_token = ls.access_token
               /\ reqs'[s].settled = "resolved"
          ELSE /\ token' = "" /\ user' = ""
               /\ ls'.access_token = "" /\ ls'.user = ""
               /\ reqs'[s].settled = "rejected"]_vars

\* A getCurrentUser sent with a session has failed and rethrown, and the
\* session is gone.
C15_Witness ==
    \E s \in Slots :
        /\ reqs[s].kind = "getCurrentUser" /\ reqs[s].st \in {"err", "lost"}
        /\ reqs[s].auth = "Bearer t0"
        /\ reqs[s].settled = "rejected"
        /\ token = "" /\ user = "" /\ ls.access_token = "" /\ ls.user = ""

\* C16: a call of apiGet, apiPost, apiPut, apiDelete or apiUpload sends
\* exactly one request, which carries an Authorization header iff
\* localStorage holds an access_token when the call is made (Bearer and that
\* token); when the call settles it has thrown if the response was not OK
\* and has returned the parsed body of the response otherwise.
C16_ApiWrapperOutcome ==
    [][/\ clicks' # clicks =>
             \E s \in Slots :
                 /\ reqs[s].kind = "free" /\ reqs'[s].st = "sent"
                 /\ reqs'[s].via \in Wrappers
                 /\ reqs'[s].auth = (IF ls.access_token = "" THEN ""
                                     ELSE "Bearer " \o ls.access_token)
                 /\ \A u \in Slots \ {s} : reqs'[u] = reqs[u]
       /\ clicks' = clicks =>
             \A s \in Slots : reqs[s].kind = "free" => reqs'[s].kind = "free"
       /\ \A s \in Slots :
             (reqs[s].apiResult = "" /\ reqs'[s].apiResult # "") =>
                 /\ reqs[s].st = "err" => (reqs'[s].apiResult = "threw" /\ reqs'[s].data = <<>>)
                 /\ reqs[s].st = "ok" => /\ reqs'[s].apiResult = "returned"
                                         /\ reqs'[s].data = <<reqs[s].tok, reqs[s].usr>>]_vars

\* With a token stored an apiGet carried it and threw on a response that
\* was not OK; later, with no access_token stored, an upload went out
\* without the header and returned its body.
C16_Witness ==
    \E s, u \in Slots :
        /\ reqs[s].via = "apiGet" /\ reqs[s].auth = "Bearer t0" /\ reqs[s].st = "err"
        /\ reqs[s].apiResult = "threw"
        /\ reqs[u].via = "apiUpload" /\ reqs[u].auth = "" /\ reqs[u].st = "ok"
        /\ reqs[u].apiResult = "returned" /\ reqs[u].data = <<reqs[u].tok, reqs[u].usr>>

\* ------------------------------------------------------ reorder claims
\* The ids of the cards FolderItem shows for the folder of deck id, in order.
DisplayedOrder(id) == IdsOf(folderDecks(decks, LocalDeck(id).folder_id))

\* order is shown with the entries at positions i and j exchanged.
Exchanged(order, shown, i, j) ==
    /\ Len(order) = Len(shown)
    /\ order[i] = shown[j] /\ order[j] = shown[i]
    /\ \A k \in 1..Len(shown) : k \notin {i, j} => order[k] = shown[k]

\* The step puts exactly one request into a free slot, a reorder of folder
\* f, and changes no page state.
OneReorder(f) ==
    /\ \E s \in Slots :
          /\ reqs[s].kind = "free"
          /\ reqs'[s].kind = "reorder" /\ reqs'[s].st = "sent" /\ reqs'[s].folder = f
          /\ \A u \in Slots \ {s} : reqs'[u] = reqs[u]
    /\ UNCHANGED <<decks, folders, isLoading, toast, srvDecks, srvFolders>>

\* C17: the deck_order that handleMoveDeckUp / handleMoveDeckDown send for a
\* deck of folder f holds exactly the ids of the local decks of f, each once,
\* and is the displayed order of the folder with the deck exchanged with its
\* immediate predecessor (up) or successor (down).
C17_ReorderPayloadIsAdjacentSwap ==
    [][\A d \in DeckIds, s \in Slots :
          ((handleMoveDeckUp(d) \/ handleMoveDeckDown(d)) /\ reqs'[s] # reqs[s]) =>
              LET f == LocalDeck(d).folder_id
                  shown == DisplayedOrder(d)
                  i == CHOOSE k \in 1..Len(shown) : shown[k] = d
                  order == reqs'[s].order
              IN /\ Range(order) = {decks[k].id : k \in {k \in 1..Len(decks) : decks[k].folder_id = f}}
                 /\ Len(order) = Cardinality(Range(order))
                 /\ handleMoveDeckUp(d) => (i > 1 /\ Exchanged(order, shown, i, i - 1))
                 /\ handleMoveDeckDown(d) => (i < Len(shown) /\ Exchanged(order, shown, i, i + 1))]_vars

\* A reorder of a folder with two decks is on its way, in the opposite of
\* the displayed order.
C17_Witness ==
    \E s \in Slots, f \in FolderIds :
        /\ reqs[s].kind = "reorder" /\ reqs[s].st = "sent" /\ reqs[s].folder = f
        /\ Len(reqs[s].order) >= 2
        /\ reqs[s].order # IdsOf(folderDecks(decks, f))
        /\ Range(reqs[s].order) = Ids(folderDecks(decks, f))

\* The guards of the two handlers, read off the page: the deck is in a
\* folder and has an order_index.
Reorderable(d) == LocalDeck(d).folder_id # NoFolder /\ LocalDeck(d).order_index # NoIndex

PositionShown(d) == CHOOSE k \in 1..Len(DisplayedOrder(d)) : DisplayedOrder(d)[k] = d

\* The step sends nothing and changes no state of the page or the backend.
NothingHappens ==
    reqs' = reqs /\ UNCHANGED <<decks, folders, isLoading, toast, srvDecks, srvFolders>>

\* C18: handleMoveDeckUp / handleMoveDeckDown send no request and change no
\* state when the deck has no folder_id, has no order_index, or is the first
\* (up) or last (down) deck of its folder; in every other case they send
\* exactly one reorder request.
C18_ReorderGuards ==
    [][\A d \in DeckIds :
          /\ handleMoveDeckUp(d) =>
                IF Reorderable(d) /\ PositionShown(d) > 1
                THEN OneReorder(LocalDeck(d).folder_id)
                ELSE NothingHappens
          /\ handleMoveDeckDown(d) =>
                IF Reorderable(d) /\ PositionShown(d) < Len(DisplayedOrder(d))
                THEN OneReorder(LocalDeck(d).folder_id)
                ELSE NothingHappens]_vars

\* A click on a move button of a deck without order_index has returned
\* early: the gesture is spent, no request exists, the lists are as loaded.
C18_Witness ==
    /\ clicks = 1 /\ mounted /\ ~isLoading /\ toast = ""
    /\ \A s \in Slots : reqs[s].kind = "free"
    /\ decks = <<Deck("d1", "f1", NoIndex), Deck("d2", "f1", NoIndex), Deck("d3", "f2", 0)>>
    /\ srvDecks = decks

\* ------------------------------------------------ DeckEditor: save, MCQ
\* Gestures on the editor in one run.
MaxSaveClicks == 2

\* The most options the Add Option button lets a flashcard have.
MaxOptions == 4

Flashcard(id, q, a, qt, opts, ci) ==
    [id |-> id, question |-> q, answer |-> a, question_type |-> qt,
     mcq_options |-> opts, correct_option_index |-> ci, audio_url |-> ""]

\* The flashcards the editor can show at position i: the blank card of a new
\* deck, a typed new card, and (edit mode) cards fetched from the backend,
\* one of them multiple choice with its last option marked correct.
InitialCards(i, editing) ==
    LET id == IF i = 1 THEN "c1" ELSE "c2"
    IN {Flashcard("", "", "", "free_response", NoOptions, NoIndex),
        Flashcard("", "q", "q", "free_response", NoOptions, NoIndex),
        Flashcard("", "q", "q", "mcq", NoOptions, NoIndex)}
       \cup (IF editing
             THEN {Flashcard(id, "q", "q", "free_response", NoOptions, NoIndex),
                   Flashcard(id, "q", "q", "mcq", <<"a", "", "", "">>, 3)}
             ELSE {})

SaveInit ==
    /\ deckId \in {"", "d1"}
    /\ deckTitle \in {"", "q"}
    /\ \E n \in 1..MaxCards :
          flashcards \in [1..n -> InitialCards(1, deckId # "") \cup InitialCards(2, deckId # "")]
    /\ \A i \in 1..Len(flashcards) : flashcards[i] \in InitialCards(i, deckId # "")
    /\ recordingStates \in {{}, {1}}
    /\ saving = FALSE
    /\ generatingPodcast = FALSE /\ podcastProgress = 0 /\ podcastAudioUrl = ""
    /\ token = "t0" /\ user = "u1" /\ ls = SignedInStorage
    /\ route = (IF deckId = "" THEN "/decks/new" ELSE "/decks/d1/edit")
    /\ page = "DeckEditor"
    /\ headerBuild = "authService"
    /\ decks = <<>> /\ folders = <<>> /\ isLoading = FALSE /\ toast = ""
    /\ mounted = TRUE /\ clicks = 0 /\ clickLimit = MaxSaveClicks
    /\ srvDecks = <<>> /\ srvFolders = <<>>
    /\ reqs = [s \in Slots |-> Free]
    /\ delOp = NoOp
    /\ ViewIdle /\ PlayerIdle

saveFrame == <<decks, folders, clickLimit, srvDecks, srvFolders, delOp, token, user, ls,
               headerBuild, viewVars, playerVars, deckId, deckTitle, generatingPodcast,
               podcastProgress, podcastAudioUrl>>

\* A gesture on a flashcard of the editor that replaces the list.
EditFlashcards(updated) ==
    /\ page = "DeckEditor"
    /\ clicks < clickLimit
    /\ clicks' = clicks + 1
    /\ flashcards' = updated
    /\ UNCHANGED <<toast, reqs, saving, recordingStates, route, page, mounted, isLoading, saveFrame>>

\* updateFlashcard(index, "question_type", value): leaving "mcq" resets the
\* MCQ fields.
changeQuestionType(index, value) ==
    /\ index \in 1..Len(flashcards)
    /\ EditFlashcards(
          IF value # "mcq"
          THEN [flashcards EXCEPT ![index].question_type = value,
                                  ![index].mcq_options = NoOptions,
                                  ![index].correct_option_index = NoIndex]
          ELSE [flashcards EXCEPT ![index].question_type = value])

\* The options block is rendered for an mcq flashcard; without mcq_options it
\* shows the one row of [""].
OptionRows(f) == IF f.mcq_options = NoOptions THEN 1 ELSE Len(f.mcq_options)

\* addMcqOption: the button is there while there are fewer than four options.
addMcqOption(index) ==
    /\ index \in 1..Len(flashcards)
    /\ flashcards[index].question_type = "mcq"
    /\ flashcards[index].mcq_options = NoOptions \/ Len(flashcards[index].mcq_options) < MaxOptions
    /\ EditFlashcards(
          [flashcards EXCEPT ![index].mcq_options =
              IF @ = NoOptions THEN <<"", "", "", "">> ELSE Append(@, "")])

\* updateMcqOption(flashcardIndex, optionIndex, value); optionIndex from 0.
updateMcqOption(flashcardIndex, optionIndex, value) ==
    /\ flashcardIndex \in 1..Len(flashcards)
    /\ flashcards[flashcardIndex].question_type = "mcq"
    /\ optionIndex \in 0..(OptionRows(flashcards[flashcardIndex]) - 1)
    /\ EditFlashcards(
          [flashcards EXCEPT ![flashcardIndex].mcq_options =
              [(IF @ = NoOptions THEN <<"", "", "", "">> ELSE @) EXCEPT ![optionIndex + 1] = value]])

\* removeMcqOption(flashcardIndex, optionIndex): filters the option out and
\* leaves correct_option_index as it is.
removeMcqOption(flashcardIndex, optionIndex) ==
    /\ flashcardIndex \in 1..Len(flashcards)
    /\ flashcards[flashcardIndex].question_type = "mcq"
    /\ optionIndex \in 0..(OptionRows(flashcards[flashcardIndex]) - 1)
    /\ EditFlashcards(
          [flashcards EXCEPT ![flashcardIndex].mcq_options =
              IF @ = NoOptions THEN @
              ELSE SubSeq(@, 1, optionIndex) \o SubSeq(@, optionIndex + 2, Len(@))])

\* The radio button of an option: updateFlashcard(index,
\* "correct_option_index", optIdx).
markCorrect(index, optIdx) ==
    /\ index \in 1..Len(flashcards)
    /\ flashcards[index].question_type = "mcq"
    /\ optIdx \in 0..(OptionRows(flashcards[index]) - 1)
    /\ EditFlashcards([flashcards EXCEPT ![index].correct_option_index = optIdx])

\* A filter that lets every flashcard through.
validPositions_All(all) == [i \in 1..Len(all) |-> i]

\* The positions of the flashcards that pass
\* flashcards.filter(f => f.question.trim() && f.answer.trim()).
validPositions(all) ==
    SelectSeq([i \in 1..Len(all) |-> i],
              LAMBDA i : trim(all[i].question) # "" /\ trim(all[i].answer) # "")

\* flashcardData of handleSave for flashcard f.
flashcardData(currentDeckId, f) ==
    LET mcq == f.question_type = "mcq" /\ f.mcq_options # NoOptions
    IN [deck_id |-> currentDeckId, id |-> f.id, question |-> f.question, answer |-> f.answer,
        question_type |-> f.question_type,
        mcq_options |-> IF mcq THEN f.mcq_options ELSE NoOptions,
        correct_option_index |->
            IF mcq THEN (IF f.correct_option_index = NoIndex THEN 0 ELSE f.correct_option_index)
            ELSE NoIndex]

\* A request of handleSave; it carries what the handler's closure holds: the
\* flashcards and recordingStates of the click, the valid positions, the
\* loop index and currentDeckId.
SaveRequest(wrapper, kind, r, currentDeckId, i) ==
    [Request(kind, currentDeckId, "", <<>>, "none", FALSE) EXCEPT
        !.via = wrapper, !.all = r.all, !.cards = r.cards, !.recs = r.recs, !.idx = i,
        !.body = IF kind = "saveFlashcard" THEN flashcardData(currentDeckId, r.all[r.cards[i]])
                 ELSE NoBody]

\* handleSave up to its first await; the Save button is disabled while saving.
handleSave ==
    /\ page = "DeckEditor"
    /\ ~saving
    /\ clicks < clickLimit /\ FreeSlots(reqs) # {}
    /\ clicks' = clicks + 1
    /\ IF trim(deckTitle) = ""
       THEN /\ toast' = "Please enter a deck title."
            /\ UNCHANGED <<reqs, saving>>
       ELSE IF validPositions(flashcards) = <<>>
       THEN /\ toast' = "Please add at least one flashcard."
            /\ UNCHANGED <<reqs, saving>>
       ELSE /\ saving' = TRUE
            /\ reqs' = [reqs EXCEPT ![FirstFree(reqs)] =
                  SaveRequest(IF deckId # "" THEN "apiPut" ELSE "apiPost", "saveDeck",
                              [all |-> flashcards, cards |-> validPositions(flashcards),
                               recs |-> recordingStates],
                              deckId, 0)]
            /\ UNCHANGED toast
    /\ UNCHANGED <<flashcards, recordingStates, route, page, mounted, isLoading, saveFrame>>

\* The backend answers a request of handleSave; a created deck or flashcard
\* gets an id.
SaveServer(s) ==
    /\ reqs[s].kind \in {"saveDeck", "saveFlashcard", "uploadAudio"}
    /\ reqs[s].st = "sent"
    /\ \/ reqs' = [reqs EXCEPT ![s].st = "ok",
                               ![s].id = CASE reqs[s].kind = "saveDeck" ->
                                                 IF reqs[s].via = "apiPost" THEN "d9" ELSE reqs[s].deck
                                           [] reqs[s].kind = "saveFlashcard" ->
                                                 IF reqs[s].via = "apiPost" THEN "c9" ELSE reqs[s].body.id
                                           [] OTHER -> "audio"]
       \/ reqs' = [reqs EXCEPT ![s].st = "err"]
    /\ UNCHANGED <<flashcards, toast, clicks, saving, recordingStates, route, page, mounted,
                   isLoading, saveFrame>>

\* The catch and finally blocks of handleSave.
SaveFailed(s) ==
    /\ toast' = "Failed to save deck. Please try again."
    /\ saving' = FALSE
    /\ reqs' = Release(reqs, s)
    /\ UNCHANGED <<route, page, mounted, isLoading>>

\* The loop of handleSave goes on after flashcard i: the next flashcard's
\* request, or the success toast, navigate("/decks") and the finally block.
SaveContinue(s, i) ==
    IF i < Len(reqs[s].cards)
    THEN /\ reqs' = [reqs EXCEPT ![s] =
                SaveRequest(IF reqs[s].all[reqs[s].cards[i + 1]].id # "" THEN "apiPut" ELSE "apiPost",
                            "saveFlashcard", reqs[s], reqs[s].deck, i + 1)]
         /\ UNCHANGED <<toast, saving, route, page, mounted, isLoading>>
    ELSE /\ toast' = (IF deckId # "" THEN "Deck updated successfully!" ELSE "Deck created successfully!")
         /\ navigate("/decks", token, user, Release(reqs, s))
         /\ saving' = FALSE

\* handleSave after the await of the deck's PUT or POST.
SaveDeckDone(s) ==
    /\ reqs[s].kind = "saveDeck"
    /\ reqs[s].st \in {"ok", "err"}
    /\ IF reqs[s].st = "err"
       THEN SaveFailed(s)
       ELSE /\ reqs' = [reqs EXCEPT ![s] =
                   SaveRequest(IF reqs[s].all[reqs[s].cards[1]].id # "" THEN "apiPut" ELSE "apiPost",
                               "saveFlashcard", reqs[s], reqs[s].id, 1)]
            /\ UNCHANGED <<toast, saving, route, page, mounted, isLoading>>
    /\ UNCHANGED <<flashcards, clicks, recordingStates, saveFrame>>

\* handleSave after the await of a flashcard's PUT or POST: a recording of
\* that flashcard not uploaded yet is uploaded now.
SaveFlashcardDone(s) ==
    /\ reqs[s].kind = "saveFlashcard"
    /\ reqs[s].st \in {"ok", "err"}
    /\ IF reqs[s].st = "err"
       THEN SaveFailed(s)
       ELSE IF reqs[s].cards[reqs[s].idx] \in reqs[s].recs /\ reqs[s].id # ""
       THEN /\ reqs' = [reqs EXCEPT ![s] =
                   SaveRequest("apiUpload", "uploadAudio", reqs[s], reqs[s].deck, reqs[s].idx)]
            /\ UNCHANGED <<toast, saving, route, page, mounted, isLoading>>
       ELSE SaveContinue(s, reqs[s].idx)
    /\ UNCHANGED <<flashcards, clicks, recordingStates, saveFrame>>

\* handleSave after the upload of a recording: a failure is only logged; a
\* success writes the flashcards and recordingStates of the click back.
UploadDone(s) ==
    /\ reqs[s].kind = "uploadAudio"
    /\ reqs[s].st \in {"ok", "err"}
    /\ IF reqs[s].st = "ok"
       THEN /\ flashcards' = [reqs[s].all EXCEPT ![reqs[s].cards[reqs[s].idx]].audio_url = reqs[s].id]
            /\ recordingStates' = reqs[s].recs \ {reqs[s].cards[reqs[s].idx]}
       ELSE UNCHANGED <<flashcards, recordingStates>>
    /\ SaveContinue(s, reqs[s].idx)
    /\ UNCHANGED <<clicks, saveFrame>>

SaveNext ==
    \/ \E i \in 1..MaxCards, v \in {"free_response", "mcq"} : changeQuestionType(i, v)
    \/ \E i \in 1..MaxCards : addMcqOption(i)
    \/ \E i \in 1..MaxCards, o \in 0..(MaxOptions - 1), v \in {"a"} : updateMcqOption(i, o, v)
    \/ \E i \in 1..MaxCards, o \in 0..(MaxOptions - 1) : removeMcqOption(i, o)
    \/ \E i \in 1..MaxCards, o \in 0..(MaxOptions - 1) : markCorrect(i, o)
    \/ handleSave
    \/ \E s \in Slots : SaveServer(s)
    \/ \E s \in Slots : SaveDeckDone(s)
    \/ \E s \in Slots : SaveFlashcardDone(s)
    \/ \E s \in Slots : UploadDone(s)

SaveSpec == SaveInit /\ [][SaveNext]_vars

\* -------------------------------------------------- save protocol claim
\* In this step slot s gets a request it did not hold before.
Sends(s, kind) ==
    /\ reqs'[s].kind = kind /\ reqs'[s].st = "sent"
    /\ reqs[s].kind # kind \/ reqs[s].idx # reqs'[s].idx

\* C19: a handleSave that passes validation first sends the deck's request
\* (PUT in edit mode with a deckId, POST otherwise); only after its success
\* it sends one request per valid flashcard, in list order, PUT for a
\* flashcard with an id and POST for one without, each with the deck's id;
\* blank flashcards are never sent; the page navigates to /decks only after
\* all of them have succeeded; saving is false when the handler ends.
C19_SaveProtocol ==
    [][/\ \A s \in Slots :
             /\ Sends(s, "saveDeck") =>
                   /\ reqs[s].kind = "free"
                   /\ trim(deckTitle) # "" /\ validFlashcards(flashcards) # <<>>
                   /\ reqs'[s].via = (IF deckId # "" THEN "apiPut" ELSE "apiPost")
                   /\ reqs'[s].all = flashcards
                   /\ saving'
             /\ Sends(s, "saveFlashcard") =>
                   LET k == reqs'[s].idx
                       valid == validFlashcards(reqs[s].all)
                       body == reqs'[s].body
                   IN /\ reqs'[s].all = reqs[s].all
                      /\ k \in 1..Len(valid)
                      /\ \/ k = 1 /\ reqs[s].kind = "saveDeck" /\ reqs[s].st = "ok"
                            /\ body.deck_id = (IF deckId # "" THEN deckId ELSE reqs[s].id)
                         \/ k > 1 /\ reqs[s].idx = k - 1 /\ body.deck_id = reqs[s].deck
                            /\ \/ reqs[s].kind = "saveFlashcard" /\ reqs[s].st = "ok"
                               \/ reqs[s].kind = "uploadAudio" /\ reqs[s].st \in {"ok", "err"}
                      /\ body.deck_id # ""
                      /\ body.id = valid[k].id
                      /\ body.question = valid[k].question /\ body.answer = valid[k].answer
                      /\ trim(body.question) # "" /\ trim(body.answer) # ""
                      /\ reqs'[s].via = (IF valid[k].id # "" THEN "apiPut" ELSE "apiPost")
             /\ (reqs[s].kind \in {"saveDeck", "saveFlashcard", "uploadAudio"} /\ reqs'[s].kind = "free") => ~saving'
       /\ (route' = "/decks" /\ route # "/decks") =>
             \E s \in Slots :
                 /\ reqs[s].idx = Len(validFlashcards(reqs[s].all))
                 /\ \/ reqs[s].kind = "saveFlashcard" /\ reqs[s].st = "ok"
                    \/ reqs[s].kind = "uploadAudio" /\ reqs[s].st \in {"ok", "err"}
       /\ (handleSave /\ trim(deckTitle) # "" /\ validFlashcards(flashcards) # <<>>) =>
             \E s \in Slots : Sends(s, "saveDeck")
       /\ (handleSave /\ ~(trim(deckTitle) # "" /\ validFlashcards(flashcards) # <<>>)) =>
             reqs' = reqs /\ ~saving']_vars

\* A new deck with a typed flashcard and a blank one has been saved: the
\* page has gone to /decks with the success toast and saving is false.
C19_Witness ==
    /\ route = "/decks" /\ toast = "Deck created successfully!" /\ ~saving
    /\ Len(flashcards) = 2
    /\ Len(validFlashcards(flashcards)) = 1

\* C20: after any sequence of addMcqOption, updateMcqOption, removeMcqOption
\* and markings of the correct option, the correct_option_index of an mcq
\* flashcard that has options and a marked option satisfies
\* 0 <= index < number of options, and the correct_option_index that
\* handleSave sends lies within the mcq_options it sends.
C20_CorrectOptionIndexValid ==
    /\ \A i \in 1..Len(flashcards) :
          (/\ flashcards[i].question_type = "mcq"
           /\ flashcards[i].mcq_options # NoOptions
           /\ flashcards[i].correct_option_index # NoIndex)
          => flashcards[i].correct_option_index \in 0..(Len(flashcards[i].mcq_options) - 1)
    /\ \A s \in Slots :
          (reqs[s].kind = "saveFlashcard" /\ reqs[s].body.mcq_options # NoOptions)
          => reqs[s].body.correct_option_index \in 0..(Len(reqs[s].body.mcq_options) - 1)
====
